---------------------------- MODULE Spec2Model ----------------------------
(***************************************************************************)
(* Verification model of invenio-stats (RCOSDP fork).                      *)
(*                                                                         *)
(* Part 1: the events indexer (invenio_stats/processors.py), its           *)
(* preprocessor chains (contrib/registrations.py, contrib/event_builders)  *)
(* and the document store it writes to.                                    *)
(* Part 2: the aggregator (invenio_stats.aggregations.StatAggregator), as  *)
(* contrib/registrations.py sets it up and section 4.5 of the              *)
(* specification describes its run.                                        *)
(* Part 3: the REST views (invenio_stats/views.py) and the helpers of      *)
(* invenio_stats/utils.py: the statistics query resource, the salt of the  *)
(* day, the per-user file report, the period list and the weekly item      *)
(* registration report.                                                    *)
(*                                                                         *)
(* Conventions                                                             *)
(*  - A Python dict is a TLA+ function from key strings to values.         *)
(*  - Python None is the value None; str(None) is "None".                  *)
(*  - An ISO-8601 timestamp string is the tuple of the fields it spells:   *)
(*    <<day, sec>> or <<day, sec, usec>> (usec > 0), where day is the      *)
(*    calendar date as a day number since 1970-01-01 and sec the second of *)
(*    that day.  Any other tuple is a string that does not parse.          *)
(*  - Digests (sha1, sha224, uuid3) are injective: the digest of x is the  *)
(*    string naming x.                                                     *)
(*  - A call that may raise returns [status, doc, error]: status is "ok",  *)
(*    "none" (the preprocessor returned None) or "raise".                  *)
(***************************************************************************)
EXTENDS Integers, Sequences, FiniteSets, TLC

VARIABLES
    event_type,           \* queue.routing_key: the event type this indexer serves
    preprocessors,        \* EventsIndexer.preprocessors: the chain, a sequence of names
    double_click_window,  \* EventsIndexer.double_click_window
    utcoffset,            \* the host's local UTC offset in seconds (mktime, fromtimestamp)
    queue,                \* messages still in the queue (queue.consume())
    pc,                   \* per worker: "off", "pull", "bulk", "done", "raised"
    chunk,                \* per worker: bulk actions collected for the next request
    inflight,             \* per worker: items of its bulk request not yet executed
    reply,                \* per worker: [ok, failed] items of the request executed so far
    stats,                \* per worker: [consumed, vetoed, success, failed]
    error,                \* per worker: the exception that ended its run, or None
    store,                \* the documents the store holds: [_index, _id, _source]
    sent,                 \* history: the actions the store has executed, in order
    pulled,               \* history: per message pulled, what the chain did with it
    anon_in,              \* anonymize_user on its own: the pair of events given to it
    anon_out,             \* anonymize_user on its own: the pair of results
    agg_events,           \* aggregator: the event documents of its event type
    bookmark,             \* aggregator: the bookmark of the definition, <<>> when none
    aggregates,           \* aggregator: the aggregate documents of the definition
    agg_run,              \* aggregator: the run in progress, <<>> when idle
    agg_runs,             \* history: the runs that have ended, in order
    authenticated,        \* REST: current_user.is_authenticated
    post_data,            \* StatsQueryResource.post: the items of data not yet visited
    post_pc,              \* StatsQueryResource.post: "off", "loop", "run", "done"
    post_result,          \* StatsQueryResource.post: result, query_name -> what run gave
    post_log,             \* history: the permission checks and query runs, in order
    post_response,        \* StatsQueryResource.post: how the request ended, <<>> before
    salt_cache,           \* current_cache: day -> the salt held under 'stats:salt:<day>', or None
    salt_ts,              \* get_anonymization_salt, per caller: the day of ts
    salt_pc,              \* get_anonymization_salt, per caller: "off", "get", "set", "return", "done"
    salt_local,           \* get_anonymization_salt, per caller: the local variable salt
    salt_ret,             \* get_anonymization_salt, per caller: the value returned
    rest_request,         \* report views and helpers: the call being served, <<>> when none
    rest_local,           \* report views and helpers: the local variables of a loop under way
    rest_response         \* report views and helpers: the values returned so far, in order

indexer_vars == <<event_type, preprocessors, double_click_window, utcoffset, queue, pc,
                  chunk, inflight, reply, stats, error, store, sent, pulled>>

anon_vars == <<anon_in, anon_out>>

agg_vars == <<agg_events, bookmark, aggregates, agg_run, agg_runs>>

post_vars == <<authenticated, post_data, post_pc, post_result, post_log, post_response>>

salt_vars == <<salt_cache, salt_ts, salt_pc, salt_local, salt_ret>>

report_vars == <<rest_request, rest_local, rest_response>>

rest_vars == <<post_vars, salt_vars, report_vars>>

vars == <<indexer_vars, anon_vars, agg_vars, rest_vars>>

\* no request is being served by StatsQueryResource
PostIdle ==
    /\ authenticated = FALSE
    /\ post_data = <<>>
    /\ post_pc = "off"
    /\ post_result = <<>>
    /\ post_log = <<>>
    /\ post_response = <<>>

\* no call of get_anonymization_salt is in progress
SaltIdle ==
    /\ salt_cache = <<>>
    /\ salt_ts = <<>>
    /\ salt_pc = <<>>
    /\ salt_local = <<>>
    /\ salt_ret = <<>>

\* no report is being made
ReportIdle ==
    /\ rest_request = <<>>
    /\ rest_local = <<>>
    /\ rest_response = <<>>

\* the REST views and the helpers of utils.py are not in use
RestIdle == PostIdle /\ SaltIdle /\ ReportIdle

\* what a step of StatsQueryResource.post leaves alone
post_frame == <<indexer_vars, anon_vars, agg_vars, salt_vars, report_vars>>

\* what a step of get_anonymization_salt leaves alone
salt_frame == <<indexer_vars, anon_vars, agg_vars, post_vars, report_vars>>

\* what a step of a report view or helper leaves alone
report_frame == <<indexer_vars, anon_vars, agg_vars, post_vars, salt_vars>>

-----------------------------------------------------------------------------
(* Python values and dicts *)

None == "None"

Truthy(v) == v # None /\ v # ""

Str(v) == v

Has(d, k) == k \in DOMAIN d

Get(d, k, default) == IF Has(d, k) THEN d[k] ELSE default

Put(d, k, v) == [x \in DOMAIN d \cup {k} |-> IF x = k THEN v ELSE d[x]]

Pop(d, k) == [x \in DOMAIN d \ {k} |-> d[x]]

Update(d, e) == [x \in DOMAIN d \cup DOMAIN e |-> IF x \in DOMAIN e THEN e[x] ELSE d[x]]

EmptyDoc == <<>>

Ok(d) == [status |-> "ok", doc |-> d, error |-> None]

Raise(e) == [status |-> "raise", doc |-> EmptyDoc, error |-> e]

ReturnNone == [status |-> "none", doc |-> EmptyDoc, error |-> None]

-----------------------------------------------------------------------------
(* Time: parsing, formatting, epoch conversion *)

SecondsPerHour == 3600

SecondsPerDay == 86400

Parses(iso) == Len(iso) \in {2, 3}

\* dateutil.parser.parse / arrow.get followed by replace(microsecond=0)
ParseSeconds(iso) == [day |-> iso[1], sec |-> iso[2]]

Pad2(n) == IF n < 10 THEN "0" \o ToString(n) ELSE ToString(n)

\* strftime('%Y-%m-%d'): the calendar date, spelled by its day number
DateStr(day) == "D" \o ToString(day)

\* (faulty variant) the timeslice is the day: strftime('%Y%m%d')
TimesliceStr_day(t) == DateStr(t.day)

\* strftime('%Y%m%d%H')
TimesliceStr(t) == DateStr(t.day) \o Pad2(t.sec \div SecondsPerHour)

\* datetime.isoformat() of a datetime without microseconds, as a timestamp tuple
IsoFormat(t) == <<t.day, t.sec>>

\* (faulty variant) the instant spelled to the minute
IsoStr_minutes(t) ==
    DateStr(t.day) \o "T" \o Pad2(t.sec \div SecondsPerHour) \o ":"
        \o Pad2((t.sec % SecondsPerHour) \div 60)

\* the same, spelled out as the string that goes into the document id
IsoStr(t) ==
    DateStr(t.day) \o "T" \o Pad2(t.sec \div SecondsPerHour) \o ":"
        \o Pad2((t.sec % SecondsPerHour) \div 60) \o ":" \o Pad2(t.sec % 60)

\* time.mktime(utc.localize(ts).utctimetuple()): the fields read as local time
mktime(t, off) == t.day * SecondsPerDay + t.sec - off

\* datetime.fromtimestamp(e): the local wall clock at epoch e
fromtimestamp(e, off) ==
    [day |-> (e + off) \div SecondsPerDay, sec |-> (e + off) % SecondsPerDay]

-----------------------------------------------------------------------------
(* External collaborators: digests, geolocation, user-agent classifier, DNS *)

sha224(x) == "sha224(" \o x \o ")"

sha1(x) == "sha1(" \o x \o ")"

uuid3(key) == "uuid3(" \o key \o ")"

\* get_geoip: the country of the address, None when the database has no entry
get_geoip(ip) == IF ip = "10.0.0.1" THEN "JP" ELSE None

\* counter_robots.is_robot / is_machine
is_robot(user_agent) == user_agent = "bot"

is_machine(user_agent) == user_agent = "curl"

\* resolve_address: the DNS name, None when gethostbyaddr raises herror
resolve_address(addr) == IF addr = "10.0.0.1" THEN "host1" ELSE None

-----------------------------------------------------------------------------
(* Preprocessors *)

\* (faulty variant) the session id is looked at before the user id
VisitorInput_session_first(ip, user_id, session_id, user_agent, timeslice) ==
    IF Truthy(session_id) THEN session_id
    ELSE IF Truthy(user_id) THEN user_id
    ELSE IF Truthy(ip) /\ Truthy(user_agent)
         THEN ip \o "|" \o user_agent \o "|" \o timeslice
    ELSE ""

\* hashlib.sha224() updated with the first identity available, if any
VisitorInput(ip, user_id, session_id, user_agent, timeslice) ==
    IF Truthy(user_id) THEN user_id
    ELSE IF Truthy(session_id) THEN session_id
    ELSE IF Truthy(ip) /\ Truthy(user_agent)
         THEN ip \o "|" \o user_agent \o "|" \o timeslice
    ELSE ""

SessionInput(ip, user_id, session_id, user_agent, timeslice) ==
    IF Truthy(user_id) THEN user_id \o "|" \o timeslice
    ELSE IF Truthy(session_id) THEN session_id \o "|" \o timeslice
    ELSE IF Truthy(ip) /\ Truthy(user_agent)
         THEN ip \o "|" \o user_agent \o "|" \o timeslice
    ELSE ""

\* (faulty variant) user_agent is read with get instead of pop: it stays in the event
anonymize_user_keeps_agent(doc) ==
    LET ip == Get(doc, "ip_address", None)
        d1 == Pop(doc, "ip_address")
        d2 == IF Truthy(ip) THEN Put(d1, "country", get_geoip(ip)) ELSE d1
        user_id == Get(d2, "user_id", "")
        d3 == Pop(d2, "user_id")
        session_id == Get(d3, "session_id", "")
        d4 == Pop(d3, "session_id")
        user_agent == Get(d4, "user_agent", "")
    IN  IF ~Parses(Get(doc, "timestamp", <<>>))
        THEN Raise("ParserError")
        ELSE LET timeslice == TimesliceStr(ParseSeconds(doc["timestamp"]))
                 visitor_id ==
                     sha224(VisitorInput(ip, user_id, session_id, user_agent, timeslice))
                 unique_session_id ==
                     sha224(SessionInput(ip, user_id, session_id, user_agent, timeslice))
             IN  Ok(Put(Put(d4, "visitor_id", visitor_id),
                        "unique_session_id", unique_session_id))

anonymize_user(doc) ==
    LET ip == Get(doc, "ip_address", None)
        d1 == Pop(doc, "ip_address")
        d2 == IF Truthy(ip) THEN Put(d1, "country", get_geoip(ip)) ELSE d1
        user_id == Get(d2, "user_id", "")
        d3 == Pop(d2, "user_id")
        session_id == Get(d3, "session_id", "")
        d4 == Pop(d3, "session_id")
        user_agent == Get(d4, "user_agent", "")
        d5 == Pop(d4, "user_agent")
    IN  IF ~Parses(Get(doc, "timestamp", <<>>))
        THEN Raise("ParserError")
        ELSE LET timeslice == TimesliceStr(ParseSeconds(doc["timestamp"]))
                 visitor_id ==
                     sha224(VisitorInput(ip, user_id, session_id, user_agent, timeslice))
                 unique_session_id ==
                     sha224(SessionInput(ip, user_id, session_id, user_agent, timeslice))
             IN  Ok(Put(Put(d5, "visitor_id", visitor_id),
                        "unique_session_id", unique_session_id))

\* (faulty variant) every event that has a user agent is flagged
flag_robots_any_agent(doc) == Ok(Put(doc, "is_robot", Has(doc, "user_agent")))

flag_robots(doc) ==
    Ok(Put(doc, "is_robot", Has(doc, "user_agent") /\ is_robot(doc["user_agent"])))

flag_machines(doc) ==
    Ok(Put(doc, "is_machine", Has(doc, "user_agent") /\ is_machine(doc["user_agent"])))

\* '{0}_{1}_..'.format(..): the parts joined by "_"
RECURSIVE JoinWith(_, _)
JoinWith(parts, sep) ==
    IF parts = <<>> THEN ""
    ELSE IF Len(parts) = 1 THEN Str(parts[1])
    ELSE Str(parts[1]) \o sep \o JoinWith(Tail(parts), sep)

\* doc[k] for every k of keys: KeyError when one is missing
HasAll(doc, keys) == \A k \in keys : Has(doc, k)

build_celery_task_unique_id(doc) ==
    IF ~HasAll(doc, {"task_id", "task_name", "repository_name"})
    THEN Raise("KeyError")
    ELSE Ok(Put(doc, "unique_id",
                uuid3(JoinWith(<<doc["task_id"], doc["task_name"],
                                 doc["repository_name"]>>, "_"))))

\* The format string has seven fields, {0}..{6}: the eighth argument,
\* doc['cur_user_id'], is evaluated (KeyError when missing) and not formatted.
build_file_unique_id(doc) ==
    IF ~HasAll(doc, {"bucket_id", "file_id", "userrole", "accessrole", "index_list",
                     "site_license_flag", "country", "cur_user_id"})
    THEN Raise("KeyError")
    ELSE Ok(Put(doc, "unique_id",
                uuid3(JoinWith(<<doc["bucket_id"], doc["file_id"], doc["userrole"],
                                 doc["accessrole"], doc["index_list"],
                                 doc["site_license_flag"], doc["country"]>>, "_"))))

\* the index names of doc['record_index_list'], joined by ", "
IndexNames(list) == [i \in 1..Len(list) |-> list[i].index_name]

copy_record_index_list(doc) == JoinWith(IndexNames(doc["record_index_list"]), ", ")

build_record_unique_id(doc) ==
    IF ~HasAll(doc, {"record_index_list", "record_id", "country", "cur_user_id",
                     "remote_addr"})
    THEN Raise("KeyError")
    ELSE Ok(Put(Put(doc, "unique_id",
                    JoinWith(<<doc["record_id"], doc["country"], doc["cur_user_id"],
                               copy_record_index_list(doc)>>, "_")),
                "hostname", Str(resolve_address(doc["remote_addr"]))))

build_top_unique_id(doc) == Ok(Put(doc, "unique_id", JoinWith(<<"top", "view">>, "_")))

build_item_create_unique_id(doc) ==
    IF ~HasAll(doc, {"pid_value", "remote_addr"})
    THEN Raise("KeyError")
    ELSE Ok(Put(Put(doc, "unique_id",
                    JoinWith(<<"item", "create", doc["pid_value"]>>, "_")),
                "hostname", Str(resolve_address(doc["remote_addr"]))))

\* search_detail maps each argument to the list of its values
build_search_detail_condition(doc) ==
    IF ~Has(doc, "search_detail")
    THEN Raise("KeyError")
    ELSE LET args == doc["search_detail"]
             kept == {k \in DOMAIN args : k = "q" \/ Len(args[k]) > 0}
             name(k) == IF k = "q" THEN "search_key" ELSE k
             search_detail ==
                 [n \in {name(k) : k \in kept} |->
                     JoinWith(args[CHOOSE k \in kept : name(k) = n], " ")]
         IN  Ok(Put(doc, "search_detail", search_detail))

build_search_unique_id(doc) ==
    IF ~Has(doc, "search_detail")
       \/ ~HasAll(doc["search_detail"], {"search_key", "search_type"})
    THEN Raise("KeyError")
    ELSE Ok(Put(doc, "unique_id",
                JoinWith(<<doc["search_detail"]["search_key"],
                           doc["search_detail"]["search_type"]>>, "_")))

\* A preprocessor supplied through processor_config that filters events out:
\* it returns None for an event flagged as robot, the event itself otherwise.
drop_robots(doc) ==
    IF Get(doc, "is_robot", FALSE) THEN ReturnNone ELSE Ok(doc)

Preproc(name, doc) ==
    CASE name = "flag_robots" -> flag_robots(doc)
      [] name = "flag_machines" -> flag_machines(doc)
      [] name = "anonymize_user" -> anonymize_user(doc)
      [] name = "build_celery_task_unique_id" -> build_celery_task_unique_id(doc)
      [] name = "build_file_unique_id" -> build_file_unique_id(doc)
      [] name = "build_record_unique_id" -> build_record_unique_id(doc)
      [] name = "build_top_unique_id" -> build_top_unique_id(doc)
      [] name = "build_item_create_unique_id" -> build_item_create_unique_id(doc)
      [] name = "build_search_detail_condition" -> build_search_detail_condition(doc)
      [] name = "build_search_unique_id" -> build_search_unique_id(doc)
      [] name = "drop_robots" -> drop_robots(doc)

-----------------------------------------------------------------------------
(* EventsIndexer *)

default_preprocessors == <<"flag_robots", "anonymize_user">>

default_double_click_window == 10

chunk_size == 50

\* (faulty variant) the loop over the chain has no break: the preprocessors after the
\* one that returned None are called on None
RECURSIVE RunFrom_nobreak(_, _, _, _)
RunFrom_nobreak(chain, i, doc, called) ==
    IF i > Len(chain)
    THEN [status |-> "ok", doc |-> doc, error |-> None, called |-> called]
    ELSE LET r == Preproc(chain[i], doc)
             now == Append(called, chain[i])
         IN  IF r.status = "raise"
             THEN [status |-> "raise", doc |-> EmptyDoc, error |-> r.error,
                   called |-> now]
             ELSE RunFrom_nobreak(chain, i + 1, r.doc, now)

\* for preproc in self.preprocessors: msg = preproc(msg); if msg is None: break
\* The result carries the names of the preprocessors that were called.
RECURSIVE RunFrom(_, _, _, _)
RunFrom(chain, i, doc, called) ==
    IF i > Len(chain)
    THEN [status |-> "ok", doc |-> doc, error |-> None, called |-> called]
    ELSE LET r == Preproc(chain[i], doc)
             now == Append(called, chain[i])
         IN  IF r.status = "ok"
             THEN RunFrom(chain, i + 1, r.doc, now)
             ELSE [status |-> r.status, doc |-> EmptyDoc, error |-> r.error,
                   called |-> now]

RunChain(chain, msg) == RunFrom(chain, 1, msg, <<>>)

\* (faulty variant) the instant rounded to the nearest multiple of the window
FloorToWindow_nearest(timestamp, window) ==
    ((timestamp + window \div 2) \div window) * window

\* timestamp // self.double_click_window * self.double_click_window
FloorToWindow(timestamp, window) == (timestamp \div window) * window

\* (faulty variant) a window of 0 falls back to the default window
DedupInstant_default_window(ts, window, off) ==
    fromtimestamp(FloorToWindow(mktime(ts, off),
                                IF window > 0 THEN window
                                ELSE default_double_click_window), off)

\* the datetime the document id is computed from
DedupInstant(ts, window, off) ==
    IF window > 0
    THEN fromtimestamp(FloorToWindow(mktime(ts, off), window), off)
    ELSE ts

\* msg.get('unique_id').encode(..) raises AttributeError when there is none
hash_id(iso_timestamp, msg) ==
    IF Get(msg, "unique_id", None) = None
    THEN Raise("AttributeError")
    ELSE Ok(iso_timestamp \o "-"
                \o sha1(msg["unique_id"] \o Str(Get(msg, "visitor_id", None))))

\* (faulty variant) the bulk action creates the document instead of indexing it
OpType_create == "create"

OpType == "index"

IndexName(etype, suffix) == "events-" \o etype \o "-" \o suffix

\* (faulty variant) msg['timestamp'] is assigned after the windowing: the
\* floored instant is stored
BulkAction_stores_floored(msg, etype, window, off) ==
    IF ~Parses(Get(msg, "timestamp", <<>>))
    THEN Raise("ParserError")
    ELSE LET suffix == DateStr(ParseSeconds(msg["timestamp"]).day)
             ts == DedupInstant(ParseSeconds(msg["timestamp"]), window, off)
             source == Put(msg, "timestamp", IsoFormat(ts))
             id == hash_id(IsoStr(ts), source)
         IN  IF id.status = "raise"
             THEN id
             ELSE Ok([_id |-> id.doc,
                      _op_type |-> OpType,
                      _index |-> IndexName(etype, suffix),
                      _type |-> etype,
                      _source |-> source])

\* the body of the loop of actionsiter after the chain: the bulk action of msg
BulkAction(msg, etype, window, off) ==
    IF ~Parses(Get(msg, "timestamp", <<>>))
    THEN Raise("ParserError")
    ELSE LET suffix == DateStr(ParseSeconds(msg["timestamp"]).day)
             ts == ParseSeconds(msg["timestamp"])
             source == Put(msg, "timestamp", IsoFormat(ts))
             id == hash_id(IsoStr(DedupInstant(ts, window, off)), source)
         IN  IF id.status = "raise"
             THEN id
             ELSE Ok([_id |-> id.doc,
                      _op_type |-> OpType,
                      _index |-> IndexName(etype, suffix),
                      _type |-> etype,
                      _source |-> source])

\* one turn of the loop of actionsiter on one message
Process(msg, chain, etype, window, off) ==
    LET r == RunChain(chain, msg)
    IN  IF r.status = "none"
        THEN [status |-> "vetoed", action |-> EmptyDoc, error |-> None,
              called |-> r.called]
        ELSE IF r.status = "raise"
        THEN [status |-> "raised", action |-> EmptyDoc, error |-> r.error,
              called |-> r.called]
        ELSE LET a == BulkAction(r.doc, etype, window, off)
             IN  IF a.status = "raise"
                 THEN [status |-> "raised", action |-> EmptyDoc, error |-> a.error,
                       called |-> r.called]
                 ELSE [status |-> "emitted", action |-> a.doc, error |-> None,
                       called |-> r.called]

-----------------------------------------------------------------------------
(* The document store *)

Key(d) == <<d._index, d._id>>

\* op_type "index": the document replaces the one held under the same
\* (_index, _id); op_type "create": refused when one is held already
Conflicts(docs, a) == a._op_type = "create" /\ \E d \in docs : Key(d) = Key(a)

\* (faulty variant) the document is added beside the one held under the same key
Execute_append(docs, a) ==
    docs \cup {[_index |-> a._index, _id |-> a._id, _source |-> a._source]}

Execute(docs, a) ==
    {d \in docs : Key(d) # Key(a)}
        \cup {[_index |-> a._index, _id |-> a._id, _source |-> a._source]}

-----------------------------------------------------------------------------
(* Event builders: the raw events that reach the queues *)

\* get_user(): the four identity fields of the request
get_user(ip, user_agent, user_id, session_id) ==
    [ip_address |-> ip, user_agent |-> user_agent, user_id |-> user_id,
     session_id |-> session_id]

LoggedIn == get_user("10.0.0.1", "Mozilla", "7", "s1")

Robot == get_user("10.0.0.1", "bot", None, None)

Guest == get_user("10.0.0.2", "curl", None, "s2")

celery_task_event_builder(timestamp, user_data) ==
    Update([timestamp |-> timestamp, task_id |-> "t1", task_name |-> "harvest",
            task_state |-> "SUCCESS", start_time |-> "09:00", end_time |-> "09:05",
            total_records |-> 3, repository_name |-> "repo", execution_time |-> "300"],
           user_data)

file_download_event_builder(timestamp, user) ==
    Update([timestamp |-> timestamp, bucket_id |-> "b1", file_id |-> "f1",
            file_key |-> "a.pdf", size |-> 10, referrer |-> None,
            accessrole |-> "open_access", userrole |-> "guest",
            site_license_flag |-> "False", index_list |-> "idx1",
            cur_user_id |-> IF Truthy(user.user_id) THEN user.user_id ELSE "guest"],
           user)

file_preview_event_builder(timestamp, user) ==
    Update([timestamp |-> timestamp, bucket_id |-> "b1", file_id |-> "f1",
            file_key |-> "a.pdf", size |-> 10, referrer |-> None,
            accessrole |-> "open_access", userrole |-> "guest",
            site_license_flag |-> "False", index_list |-> "idx1",
            cur_user_id |-> IF Truthy(user.user_id) THEN user.user_id ELSE "guest"],
           user)

record_view_event_builder(timestamp, user) ==
    Update([timestamp |-> timestamp, record_id |-> "r1", record_name |-> "title",
            record_index_list |->
                <<[index_id |-> "1", index_name |-> "idx1", index_name_en |-> "idx1"]>>,
            pid_type |-> "recid", pid_value |-> "1", referrer |-> None,
            cur_user_id |-> IF Truthy(user.user_id) THEN user.user_id ELSE "guest",
            remote_addr |-> user.ip_address],
           user)

top_view_event_builder(timestamp, user) ==
    Update([timestamp |-> timestamp, referrer |-> None,
            remote_addr |-> user.ip_address],
           user)

\* search_args.to_dict(flat=False): each argument of the search with the
\* list of its values
ToDict(search_args) ==
    [k \in search_args |->
        CASE k = "q" -> <<"cat", "dog">>
          [] k = "search_type" -> <<"0">>
          [] k = "page" -> <<>>]

search_event_builder(timestamp, user, search_args) ==
    Update([timestamp |-> timestamp, referrer |-> None,
            search_detail |-> ToDict(search_args)],
           user)

\* the arguments a search comes with: a full-text search, the search of
\* test_search_event_builder, which has no 'q', and a search without
\* 'search_type'
SearchArgs == {{"q", "search_type", "page"}, {"search_type"}, {"q"}}

item_create_event_builder(timestamp, user) ==
    Update([timestamp |-> timestamp, referrer |-> None,
            remote_addr |-> user.ip_address, pid_type |-> "recid",
            pid_value |-> "1"],
           user)

\* An event published by a caller of its own, for an event type that is
\* registered without preprocessors (the default chain applies): it brings
\* its unique_id, and the identity fields named by keys.
PlainEvent(timestamp, user, keys) ==
    Update([timestamp |-> timestamp, unique_id |-> "x1"],
           [k \in keys |-> user[k]])

IdentityKeys == {"ip_address", "user_agent", "user_id", "session_id"}

\* An event published for an event type that is registered without
\* preprocessors by a caller that gives it the fields of get_user and no
\* unique_id.
BareEvent(timestamp, user) == Update([timestamp |-> timestamp], user)

\* STATS_EVENTS / register_events: the event types
RegisteredTypes ==
    {"celery-task", "file-download", "file-preview", "item-create", "record-view",
     "top-view", "search"}

\* register_events: processor_config.preprocessors of each event type
register_events(etype) ==
    CASE etype = "celery-task" ->
            <<"flag_robots", "anonymize_user", "build_celery_task_unique_id">>
      [] etype = "file-download" ->
            <<"flag_robots", "anonymize_user", "build_file_unique_id">>
      [] etype = "file-preview" ->
            <<"flag_robots", "anonymize_user", "build_file_unique_id">>
      [] etype = "item-create" ->
            <<"flag_robots", "anonymize_user", "build_item_create_unique_id">>
      [] etype = "record-view" ->
            <<"flag_robots", "anonymize_user", "build_record_unique_id">>
      [] etype = "top-view" ->
            <<"flag_robots", "anonymize_user", "build_top_unique_id">>
      [] etype = "search" ->
            <<"flag_robots", "anonymize_user", "build_search_detail_condition",
              "build_search_unique_id">>

\* EventsIndexer.__init__: the chain given, the default chain when none is given.
\* "plain" and "bare" are event types set up without preprocessors; "filtered" one set up
\* with a chain that filters robots out.
Preprocessors(etype) ==
    CASE etype \in RegisteredTypes -> register_events(etype)
      [] etype \in {"plain", "bare"} -> default_preprocessors
      [] etype = "filtered" ->
            <<"flag_robots", "drop_robots", "anonymize_user", "build_top_unique_id">>

\* the events a builder of the event type makes at the given instants for the
\* given users
Built(etype, timestamp, user) ==
    CASE etype = "celery-task" -> celery_task_event_builder(timestamp, user)
      [] etype = "file-download" -> file_download_event_builder(timestamp, user)
      [] etype = "file-preview" -> file_preview_event_builder(timestamp, user)
      [] etype = "item-create" -> item_create_event_builder(timestamp, user)
      [] etype = "record-view" -> record_view_event_builder(timestamp, user)
      [] etype = "top-view" -> top_view_event_builder(timestamp, user)
      [] etype = "search" ->
            search_event_builder(timestamp, user, {"q", "search_type", "page"})
      [] etype = "filtered" -> top_view_event_builder(timestamp, user)

RawEvents(etype, timestamps, users) ==
    IF etype = "plain"
    THEN {PlainEvent(t, u, ks) : t \in timestamps, u \in users,
                                 ks \in {{}, {"ip_address", "user_agent"}, IdentityKeys}}
    ELSE IF etype = "search"
    THEN {search_event_builder(t, u, a) : t \in timestamps, u \in users,
                                         a \in SearchArgs}
    ELSE IF etype = "bare"
    THEN {BareEvent(t, u) : t \in timestamps, u \in users}
    ELSE {Built(etype, t, u) : t \in timestamps, u \in users}

-----------------------------------------------------------------------------
(* The indexer as a state machine: EventsIndexer.run() in each worker *)

MaxQueue == 2

Workers == {1, 2}

SeqsUpTo(S, n) == UNION {[1..k -> S] : k \in 0..n}

NoStats == [consumed |-> 0, vetoed |-> 0, success |-> 0, failed |-> 0]

NoReply == [ok |-> 0, failed |-> 0]

\* Every worker of running has called run() on an indexer of one event type;
\* the queue holds the messages delivered to it.
IndexerInit(types, windows, offsets, timestamps, users, running) ==
    /\ event_type \in types
    /\ preprocessors = Preprocessors(event_type)
    /\ double_click_window \in windows
    /\ utcoffset \in offsets
    /\ queue \in SeqsUpTo(RawEvents(event_type, timestamps, users), MaxQueue)
    /\ pc = [w \in Workers |-> IF w \in running THEN "pull" ELSE "off"]
    /\ chunk = [w \in Workers |-> <<>>]
    /\ inflight = [w \in Workers |-> <<>>]
    /\ reply = [w \in Workers |-> NoReply]
    /\ stats = [w \in Workers |-> NoStats]
    /\ error = [w \in Workers |-> None]
    /\ store = {}
    /\ sent = <<>>
    /\ pulled = <<>>

AnonIdle == anon_in = <<>> /\ anon_out = <<>>

\* no aggregation is set up
AggIdle ==
    /\ agg_events = {}
    /\ bookmark = <<>>
    /\ aggregates = {}
    /\ agg_run = <<>>
    /\ agg_runs = <<>>

\* streaming_bulk asks actionsiter for the next action: the generator takes
\* the next message off the queue and runs it through the chain.  A veto goes
\* on to the next message; an exception leaves the generator, streaming_bulk
\* and run(), and the actions collected for the next request are lost.
Pull(w) ==
    /\ pc[w] = "pull"
    /\ queue # <<>>
    /\ Len(chunk[w]) < chunk_size
    /\ LET msg == Head(queue)
           r == Process(msg, preprocessors, event_type, double_click_window, utcoffset)
       IN  /\ queue' = Tail(queue)
           /\ pulled' = Append(pulled,
                  [worker |-> w, msg |-> msg, called |-> r.called, status |-> r.status,
                   action |-> IF r.status = "emitted" THEN <<r.action>> ELSE <<>>])
           /\ stats' = [stats EXCEPT ![w].consumed = @ + 1,
                                     ![w].vetoed =
                                         IF r.status = "vetoed" THEN @ + 1 ELSE @]
           /\ chunk' = [chunk EXCEPT ![w] =
                           CASE r.status = "emitted" -> Append(@, r.action)
                             [] r.status = "vetoed" -> @
                             [] r.status = "raised" -> <<>>]
           /\ pc' = [pc EXCEPT ![w] = IF r.status = "raised" THEN "raised" ELSE @]
           /\ error' = [error EXCEPT ![w] = r.error]
    /\ UNCHANGED <<event_type, preprocessors, double_click_window, utcoffset,
                   inflight, reply, store, sent, anon_vars, agg_vars, rest_vars>>

\* The chunk is full or the generator is exhausted: the request goes out.
Flush(w) ==
    /\ pc[w] = "pull"
    /\ chunk[w] # <<>>
    /\ queue = <<>> \/ Len(chunk[w]) = chunk_size
    /\ inflight' = [inflight EXCEPT ![w] = chunk[w]]
    /\ chunk' = [chunk EXCEPT ![w] = <<>>]
    /\ reply' = [reply EXCEPT ![w] = NoReply]
    /\ pc' = [pc EXCEPT ![w] = "bulk"]
    /\ UNCHANGED <<event_type, preprocessors, double_click_window, utcoffset, queue,
                   stats, error, store, sent, pulled, anon_vars, agg_vars, rest_vars>>

\* The store executes the next item of the request, or refuses it: for a
\* reason of its own (accepted is FALSE: a mapping conflict, a full disk)
\* or because of the item's op_type.
ExecuteItem(w) ==
    /\ pc[w] = "bulk"
    /\ inflight[w] # <<>>
    /\ \E accepted \in BOOLEAN :
          LET a == Head(inflight[w])
              done == accepted /\ ~Conflicts(store, a)
          IN  /\ store' = IF done THEN Execute(store, a) ELSE store
              /\ sent' = IF accepted THEN Append(sent, a) ELSE sent
              /\ reply' = [reply EXCEPT ![w] =
                              IF done THEN [@ EXCEPT !.ok = @ + 1]
                                      ELSE [@ EXCEPT !.failed = @ + 1]]
    /\ inflight' = [inflight EXCEPT ![w] = Tail(@)]
    /\ UNCHANGED <<event_type, preprocessors, double_click_window, utcoffset, queue, pc,
                   chunk, stats, error, pulled, anon_vars, agg_vars, rest_vars>>

\* helpers.bulk(client, actions, stats_only=True, chunk_size=50) leaves
\* raise_on_error at its default, True: a response that reports refused items
\* raises BulkIndexError out of run().  Otherwise the items are counted and
\* the generator is asked for the next chunk.
BulkRaises(r) == r.failed > 0

Respond(w) ==
    /\ pc[w] = "bulk"
    /\ inflight[w] = <<>>
    /\ IF BulkRaises(reply[w])
       THEN /\ pc' = [pc EXCEPT ![w] = "raised"]
            /\ error' = [error EXCEPT ![w] = "BulkIndexError"]
            /\ stats' = stats
       ELSE /\ pc' = [pc EXCEPT ![w] = "pull"]
            /\ error' = error
            /\ stats' = [stats EXCEPT ![w].success = @ + reply[w].ok,
                                      ![w].failed = @ + reply[w].failed]
    /\ UNCHANGED <<event_type, preprocessors, double_click_window, utcoffset, queue,
                   chunk, inflight, reply, store, sent, pulled, anon_vars, agg_vars, rest_vars>>

\* The queue is drained and nothing is left to send: bulk returns
\* (success, failed) and so does run().
Finish(w) ==
    /\ pc[w] = "pull"
    /\ queue = <<>>
    /\ chunk[w] = <<>>
    /\ pc' = [pc EXCEPT ![w] = "done"]
    /\ UNCHANGED <<event_type, preprocessors, double_click_window, utcoffset, queue,
                   chunk, inflight, reply, stats, error, store, sent, pulled, anon_vars, agg_vars, rest_vars>>

Next ==
    \E w \in Workers :
        \/ Pull(w)
        \/ Flush(w)
        \/ ExecuteItem(w)
        \/ Respond(w)
        \/ Finish(w)

AllTypes == RegisteredTypes \cup {"plain", "bare", "filtered"}

Users == {LoggedIn, Robot, Guest}

\* two instants a second apart around midnight, and a string that is no timestamp
Timestamps == {<<0, 86399>>, <<1, 0, 500000>>, <<>>}

Init ==
    /\ IndexerInit(AllTypes, {default_double_click_window}, {0}, Timestamps, Users, {1})
    /\ AnonIdle
    /\ AggIdle
    /\ RestIdle

Spec == Init /\ [][Next]_vars

\* The dedup window on its own: one event type, windows 0, 7 and 10 seconds,
\* hosts on UTC and on UTC+9, instants on both sides of a midnight.
Instants ==
    {<<0, 86391>>, <<0, 86399>>, <<1, 0>>, <<1, 1>>, <<1, 1, 500000>>, <<1, 12>>}

Windows == {0, 7, default_double_click_window}

InitTime ==
    /\ IndexerInit({"top-view"}, Windows, {0, 32400},
                   Instants, {LoggedIn, Robot}, {1})
    /\ AnonIdle
    /\ AggIdle
    /\ RestIdle

SpecTime == InitTime /\ [][Next]_vars

\* Two workers drain one queue, duplicates included.
InitConc ==
    /\ IndexerInit({"top-view", "filtered"}, {default_double_click_window}, {0},
                   {<<1, 0>>, <<1, 1, 500000>>}, {LoggedIn, Robot}, Workers)
    /\ AnonIdle
    /\ AggIdle
    /\ RestIdle

SpecConc == InitConc /\ [][Next]_vars

-----------------------------------------------------------------------------
(* anonymize_user on its own, applied to two events *)

Absent == "<absent>"

\* the event with the timestamp and the identity fields c gives a value to
AnonEvent(timestamp, c) ==
    Update([timestamp |-> timestamp],
           [k \in {x \in DOMAIN c : c[x] # Absent} |-> c[k]])

AnonInputs ==
    {AnonEvent(t, [ip_address |-> ip, user_agent |-> ua, user_id |-> u,
                   session_id |-> sid]) :
        t \in {<<0, 3599>>, <<0, 3600, 7>>, <<0, 3601>>, <<1, 3599>>},
        ip \in {Absent, "10.0.0.1", "10.0.0.2"},
        ua \in {Absent, "bot"},
        u \in {Absent, "", "7"},
        sid \in {None, "s1", "s2"}}

InitAnon ==
    /\ IndexerInit({"plain"}, {default_double_click_window}, {0}, {}, {}, {})
    /\ anon_in \in AnonInputs \X AnonInputs
    /\ anon_out = <<>>
    /\ AggIdle
    /\ RestIdle

Anonymize ==
    /\ anon_out = <<>>
    /\ anon_out' = <<anonymize_user(anon_in[1]), anonymize_user(anon_in[2])>>
    /\ UNCHANGED <<indexer_vars, anon_in, agg_vars, rest_vars>>

NextAnon == Anonymize

SpecAnon == InitAnon /\ [][NextAnon]_vars

-----------------------------------------------------------------------------
(* The aggregator: StatAggregator as register_aggregations sets it up, one   *)
(* definition, one runner (runs of one definition are serialized).           *)

\* register_aggregations: aggregator_config of every definition
aggregation_field == "unique_id"

\* metric_aggregation_fields: result key -> <<kind of reduction, source field>>
metric_aggregation_fields ==
    [unique_count |-> <<"cardinality", "unique_session_id">>,
     volume |-> <<"sum", "size">>]

MaxEvents == 3

MaxRuns == 2

NoBookmark == <<>>

\* the instant of a stored timestamp, in seconds since the epoch
EpochSecond(ts) == ts[1] * SecondsPerDay + ts[2]

\* the UTC calendar day of a stored timestamp
DayOf(ts) == ts[1]

\* step 1: the bookmark, or the start of history when there is none
LowerBound(b) == IF b = NoBookmark THEN -1 ELSE EpochSecond(b)

\* step 2: the events after the bookmark, up to the upper bound of the run
Matching(events, b, upper) ==
    {e \in events : /\ EpochSecond(e.timestamp) > LowerBound(b)
                    /\ EpochSecond(e.timestamp) <= upper}

\* step 3: the (day, key) groups of the events
GroupsOf(events) == {<<DayOf(e.timestamp), e[aggregation_field]>> : e \in events}

GroupOf(events, g) ==
    {e \in events : DayOf(e.timestamp) = g[1] /\ e[aggregation_field] = g[2]}

\* a missing value counts as zero
Numeric(e, field) == IF field \in DOMAIN e THEN e[field] ELSE 0

RECURSIVE SumOf(_, _)
SumOf(S, field) ==
    IF S = {} THEN 0
    ELSE LET e == CHOOSE x \in S : TRUE
         IN  Numeric(e, field) + SumOf(S \ {e}, field)

\* step 4: one metric over a group; the distinct count is exact
Metric(m, S) ==
    CASE m[1] = "cardinality" -> Cardinality({e[m[2]] : e \in {x \in S : m[2] \in DOMAIN x}})
      [] m[1] = "sum" -> SumOf(S, m[2])

\* step 4: the aggregate document of group g
AggregateOf(events, g) ==
    [day |-> g[1], key |-> g[2],
     count |-> Cardinality(GroupOf(events, g)),
     unique_count |-> Metric(metric_aggregation_fields.unique_count, GroupOf(events, g)),
     volume |-> Metric(metric_aggregation_fields.volume, GroupOf(events, g))]

\* the aggregate documents of the groups, days in non-decreasing order
RECURSIVE InDayOrder(_, _)
InDayOrder(events, groups) ==
    IF groups = {} THEN <<>>
    ELSE LET g == CHOOSE x \in groups : \A y \in groups : x[1] <= y[1]
         IN  <<AggregateOf(events, g)>> \o InDayOrder(events, groups \ {g})

\* the identity of an aggregate document
AggKey(a) == <<a.day, a.key>>

\* (faulty variant) the counts are added to those of the document held for the
\* same day and key
WriteAggregate_accumulate(docs, a) ==
    {d \in docs : AggKey(d) # AggKey(a)}
        \cup {[a EXCEPT !.count = @ + SumOf({d \in docs : AggKey(d) = AggKey(a)}, "count")]}

\* step 5: the document replaces the one of the same day and key
WriteAggregate(docs, a) == {d \in docs : AggKey(d) # AggKey(a)} \cup {a}

\* the latest timestamp among the events
Latest(events) ==
    CHOOSE t \in {e.timestamp : e \in events} :
        \A e \in events : EpochSecond(e.timestamp) <= EpochSecond(t)

\* (faulty variant) the bookmark is set to the earliest timestamp consumed
BookmarkAfterSuccess_earliest(before, consumed) ==
    IF consumed = {} THEN before
    ELSE CHOOSE t \in {e.timestamp : e \in consumed} :
             \A e \in consumed : EpochSecond(t) <= EpochSecond(e.timestamp)

\* step 6: the latest timestamp consumed; unchanged when nothing was found
BookmarkAfterSuccess(before, consumed) ==
    IF consumed = {} THEN before ELSE Latest(consumed)

\* (faulty variant) the bookmark computed for the run is stored although the
\* write-back failed
BookmarkAfterFailure_candidate(before, consumed) ==
    IF consumed = {} THEN before ELSE Latest(consumed)

\* failure semantics: a failed write-back leaves the bookmark where it was
BookmarkAfterFailure(before, consumed) == before

\* the event documents the indexer may have stored for the event type
AggEventPool ==
    {[timestamp |-> <<0, 100>>, unique_id |-> "a", unique_session_id |-> "s1", size |-> 10],
     [timestamp |-> <<0, 200>>, unique_id |-> "a", unique_session_id |-> "s2", size |-> 5],
     [timestamp |-> <<0, 200>>, unique_id |-> "b", unique_session_id |-> "s1", size |-> 10],
     [timestamp |-> <<1, 100>>, unique_id |-> "a", unique_session_id |-> "s1", size |-> 10],
     [timestamp |-> <<1, 200>>, unique_id |-> "a", unique_session_id |-> "s1"],
     [timestamp |-> <<1, 200>>, unique_id |-> "b", unique_session_id |-> "s2", size |-> 5]}

\* "now minus the safety margin" at the start of a run: the end of the first
\* day's events, or later than every event
UpperBounds == {EpochSecond(<<0, 200>>), EpochSecond(<<2, 0>>)}

\* the record of a run that ends
Ended(r, outcome, after, docs) ==
    [before |-> r.before, upper |-> r.upper, events |-> r.events,
     consumed |-> r.consumed, written |-> r.written, outcome |-> outcome,
     after |-> after, aggregates |-> docs]

\* the indexer stores one more event document
AddEvent ==
    /\ Cardinality(agg_events) < MaxEvents
    /\ \E e \in AggEventPool \ agg_events : agg_events' = agg_events \cup {e}
    /\ UNCHANGED <<rest_vars, indexer_vars, anon_vars, bookmark, aggregates, agg_run, agg_runs>>

\* steps 1 to 4: read the bookmark, query the events, compute the aggregates
AggStart ==
    /\ agg_run = <<>>
    /\ Len(agg_runs) < MaxRuns
    /\ \E upper \in UpperBounds :
          LET consumed == Matching(agg_events, bookmark, upper)
          IN  agg_run' = <<[before |-> bookmark, upper |-> upper, events |-> agg_events,
                            consumed |-> consumed,
                            pending |-> InDayOrder(consumed, GroupsOf(consumed)),
                            written |-> {}]>>
    /\ UNCHANGED <<rest_vars, indexer_vars, anon_vars, agg_events, bookmark, aggregates, agg_runs>>

\* step 5: the next aggregate document is written
AggWrite ==
    /\ agg_run # <<>>
    /\ agg_run[1].pending # <<>>
    /\ LET r == agg_run[1]
           a == Head(r.pending)
       IN  /\ aggregates' = WriteAggregate(aggregates, a)
           /\ agg_run' = <<[r EXCEPT !.pending = Tail(@),
                                     !.written = @ \cup GroupOf(r.consumed, AggKey(a))]>>
    /\ UNCHANGED <<rest_vars, indexer_vars, anon_vars, agg_events, bookmark, agg_runs>>

\* the write-back fails: the run ends, with what was written so far
AggWriteFails ==
    /\ agg_run # <<>>
    /\ agg_run[1].pending # <<>>
    /\ LET r == agg_run[1]
           after == BookmarkAfterFailure(r.before, r.consumed)
       IN  /\ bookmark' = after
           /\ agg_runs' = Append(agg_runs, Ended(r, "failed", after, aggregates))
    /\ agg_run' = <<>>
    /\ UNCHANGED <<rest_vars, indexer_vars, anon_vars, agg_events, aggregates>>

\* step 6: everything is written: the bookmark is advanced and the run ends
AggCommit ==
    /\ agg_run # <<>>
    /\ agg_run[1].pending = <<>>
    /\ LET r == agg_run[1]
           after == BookmarkAfterSuccess(r.before, r.consumed)
       IN  /\ bookmark' = after
           /\ agg_runs' = Append(agg_runs,
                  Ended(r, IF r.consumed = {} THEN "empty" ELSE "ok", after, aggregates))
    /\ agg_run' = <<>>
    /\ UNCHANGED <<rest_vars, indexer_vars, anon_vars, agg_events, aggregates>>

\* the operator sets the bookmark back to where the last run started, to run
\* the aggregation again over the same range
Rewind ==
    /\ agg_run = <<>>
    /\ agg_runs # <<>>
    /\ bookmark # agg_runs[Len(agg_runs)].before
    /\ bookmark' = agg_runs[Len(agg_runs)].before
    /\ UNCHANGED <<rest_vars, indexer_vars, anon_vars, agg_events, aggregates, agg_run, agg_runs>>

NextAgg ==
    \/ AddEvent
    \/ AggStart
    \/ AggWrite
    \/ AggWriteFails
    \/ AggCommit
    \/ Rewind

InitAgg ==
    /\ IndexerInit({"plain"}, {default_double_click_window}, {0}, {}, {}, {})
    /\ AnonIdle
    /\ AggIdle
    /\ RestIdle

SpecAgg == InitAgg /\ [][NextAgg]_vars

-----------------------------------------------------------------------------
(* Properties of the indexer *)

\* the messages that came out of actionsiter as a bulk action
Emitted == {pulled[i] : i \in {j \in DOMAIN pulled : pulled[j].status = "emitted"}}

ActionOf(p) == p.action[1]

\* the microseconds from the instant of raw timestamp a to that of b
MicrosBetween(a, b) ==
    ((b[1] - a[1]) * SecondsPerDay + (b[2] - a[2])) * 1000000
        + (IF Len(b) = 3 THEN b[3] ELSE 0) - (IF Len(a) = 3 THEN a[3] ELSE 0)

\* the whole second of the stored timestamp, since the epoch
StoredSecond(a) == a._source["timestamp"][1] * SecondsPerDay + a._source["timestamp"][2]

\* the number of the dedup window the stored timestamp falls in
WindowOf(a) == (StoredSecond(a) - utcoffset) \div double_click_window

HourOf(a) == StoredSecond(a) \div SecondsPerHour

SameIdentity(a, b) ==
    /\ a._source["unique_id"] = b._source["unique_id"]
    /\ a._source["visitor_id"] = b._source["visitor_id"]

\* the same semantic event: the raw events agree on everything but the timestamp
SameEvent(m, n) == Pop(m, "timestamp") = Pop(n, "timestamp")

\* the positions of sent that hold an action of the given key
SentAt(k) == {i \in DOMAIN sent : Key(sent[i]) = k}

Max(S) == CHOOSE x \in S : \A y \in S : y <= x

\* the store holds exactly one document under k, with the content of the
\* action of that key executed last
OneDocLastWins(k) ==
    /\ Cardinality({d \in store : Key(d) = k}) = 1
    /\ \A d \in store : Key(d) = k => d._source = sent[Max(SentAt(k))]._source

\* two executed submissions of the same semantic event
Resubmitted(p, q) ==
    /\ SameEvent(p.msg, q.msg)
    /\ \E i, j \in DOMAIN sent : i < j /\ sent[i] = ActionOf(p) /\ sent[j] = ActionOf(q)

C2_Original ==
    \A p, q \in Emitted :
        (/\ double_click_window > 0
         /\ SameIdentity(ActionOf(p), ActionOf(q))
         /\ MicrosBetween(p.msg["timestamp"], q.msg["timestamp"]) >= 0
         /\ MicrosBetween(p.msg["timestamp"], q.msg["timestamp"])
                < double_click_window * 1000000)
        => ActionOf(p)._id = ActionOf(q)._id

\* C2 amended: with W > 0, two events with the same unique_id and visitor_id
\* whose timestamps fall in the same window of W seconds (the same multiple of
\* W under their mktime seconds) get the same document id.
C2_SameWindowSameId ==
    \A p, q \in Emitted :
        (/\ double_click_window > 0
         /\ SameIdentity(ActionOf(p), ActionOf(q))
         /\ WindowOf(ActionOf(p)) = WindowOf(ActionOf(q)))
        => ActionOf(p)._id = ActionOf(q)._id

\* an event at the start t of a window and one at t + W - e have one id
C2_Witness ==
    \E p, q \in Emitted :
        /\ double_click_window > 0
        /\ SameIdentity(ActionOf(p), ActionOf(q))
        /\ (StoredSecond(ActionOf(p)) - utcoffset) % double_click_window = 0
        /\ MicrosBetween(p.msg["timestamp"], q.msg["timestamp"]) > 0
        /\ MicrosBetween(p.msg["timestamp"], q.msg["timestamp"])
               < double_click_window * 1000000
        /\ ActionOf(p)._id = ActionOf(q)._id

Held ==
    UNION {{chunk[w][i] : i \in DOMAIN chunk[w]} \cup {inflight[w][i] : i \in DOMAIN inflight[w]}
               : w \in Workers}
        \cup {sent[i] : i \in DOMAIN sent}

AsAction(d, etype) ==
    [_id |-> d._id, _op_type |-> OpType, _index |-> d._index, _type |-> etype,
     _source |-> d._source]

\* C4: for every registered event type and for the default chain, the _source of
\* every bulk action that comes out of actionsiter (and so every document of the
\* store) has none of the keys ip_address, user_id, session_id, user_agent,
\* whichever of them the raw event had.
C4_NoPII ==
    /\ \A p \in Emitted : DOMAIN ActionOf(p)._source \cap IdentityKeys = {}
    /\ \A a \in Held : DOMAIN a._source \cap IdentityKeys = {}
    /\ \A d \in store : DOMAIN d._source \cap IdentityKeys = {}

\* an event that had all four identity fields is in the store
C4_Witness ==
    \E p \in Emitted :
        /\ IdentityKeys \subseteq DOMAIN p.msg
        /\ \E d \in store : AsAction(d, event_type) = ActionOf(p)

\* the places of the chain at which a preprocessor returns None for msg
VetoedBy(chain, msg) ==
    {n \in 1..Len(chain) :
        LET r == RunChain(SubSeq(chain, 1, n - 1), msg)
        IN  r.status = "ok" /\ Preproc(chain[n], r.doc).status = "none"}

LastPullOf(w) == Max({0} \cup {i \in DOMAIN pulled : pulled[i].worker = w})

\* C5: when a preprocessor returns None for an event, no later preprocessor of
\* the chain is called on that event, no bulk action is emitted for it, no
\* exception is raised, and the events that follow it in the queue are still
\* processed and emitted.
C5_ChainVeto ==
    /\ \A i \in DOMAIN pulled : \A n \in VetoedBy(preprocessors, pulled[i].msg) :
          /\ pulled[i].status = "vetoed"
          /\ pulled[i].called = SubSeq(preprocessors, 1, n)
          /\ pulled[i].action = <<>>
          /\ LastPullOf(pulled[i].worker) = i
                => error[pulled[i].worker] \in {None, "BulkIndexError"}
          /\ \A j \in DOMAIN pulled :
                (/\ j > i
                 /\ Process(pulled[j].msg, preprocessors, event_type,
                            double_click_window, utcoffset).status = "emitted")
                => /\ pulled[j].status = "emitted"
                   /\ stats[pulled[j].worker].consumed > stats[pulled[j].worker].vetoed
    /\ \A a \in Held : \E p \in Emitted : ActionOf(p) = a
    /\ \A w \in Workers : pc[w] = "done" => queue = <<>>

\* a vetoed event was followed by one that has been indexed, and run() returned
C5_Witness ==
    \E i, j \in DOMAIN pulled :
        /\ i < j
        /\ pulled[i].status = "vetoed"
        /\ pulled[j].status = "emitted"
        /\ pc[pulled[i].worker] = "done"
        /\ \E d \in store : AsAction(d, event_type) = ActionOf(pulled[j])

\* C7 as stated: when the store refuses items of a run, run() does not raise,
\* and it returns (succeeded, failed) with succeeded + failed equal to the
\* number of events consumed less the number vetoed.
C7_Claim ==
    \A w \in Workers :
        /\ error[w] # "BulkIndexError"
        /\ pc[w] = "done"
              => stats[w].success + stats[w].failed = stats[w].consumed - stats[w].vetoed

\* C8 as stated: an event whose timestamp does not parse is dropped and counted
\* as a failure, the other events of the run are indexed, and the run does not
\* abort.
C8_Claim ==
    \A w \in Workers :
        /\ error[w] # "ParserError"
        /\ \A i \in DOMAIN pulled :
              (pulled[i].worker = w /\ ~Parses(pulled[i].msg["timestamp"]))
                  => /\ pc[w] # "raised"
                     /\ pc[w] = "done" => stats[w].failed > 0

\* what one worker makes of each distinct message, taken once
ReferenceActions ==
    {r.action : r \in {x \in {Process(pulled[i].msg, preprocessors, event_type,
                                      double_click_window, utcoffset) : i \in DOMAIN pulled} :
                          x.status = "emitted"}}

\* C6: when two or more workers have processed the messages of the queue,
\* duplicates included, under any interleaving of their bulk writes, the
\* (index, _id) pairs of the store are those one worker makes of each distinct
\* message, and no (index, _id) holds more than one document.
C6_Convergence ==
    /\ \A d, e \in store : Key(d) = Key(e) => d = e
    /\ (\A w \in Workers : pc[w] = "done")
          => {Key(d) : d \in store} = {Key(a) : a \in ReferenceActions}

\* both workers have written, one over the other's document, and returned
C6_Witness ==
    /\ \A w \in Workers : pc[w] = "done" /\ stats[w].success > 0
    /\ Cardinality(store) < Len(sent)
    /\ \E i, j \in DOMAIN pulled :
          /\ pulled[i].worker # pulled[j].worker
          /\ pulled[i].status = "emitted" /\ pulled[j].status = "emitted"
          /\ Key(ActionOf(pulled[i])) = Key(ActionOf(pulled[j]))
          /\ ActionOf(pulled[i])._source # ActionOf(pulled[j])._source

-----------------------------------------------------------------------------
(* Properties of anonymize_user *)

\* the UTC hour of a raw timestamp, counted from the epoch
RawHour(iso) == iso[1] * 24 + iso[2] \div SecondsPerHour

Field(e, k) == IF k \in DOMAIN e THEN e[k] ELSE ""

NonEmpty(v) == v # "" /\ v # None

\* C9: for two events with the same non-empty user_id, anonymize_user gives the
\* same unique_session_id when their timestamps fall in the same UTC hour and
\* different ones when they fall in different hours.
C9_SessionFingerprint ==
    (/\ anon_out # <<>>
     /\ NonEmpty(Field(anon_in[1], "user_id"))
     /\ Field(anon_in[1], "user_id") = Field(anon_in[2], "user_id"))
    => /\ anon_out[1].status = "ok" /\ anon_out[2].status = "ok"
       /\ (RawHour(anon_in[1]["timestamp"]) = RawHour(anon_in[2]["timestamp"]))
             <=> (anon_out[1].doc["unique_session_id"]
                      = anon_out[2].doc["unique_session_id"])

\* one user at two instants of one hour, with different address and session
C9_Witness ==
    /\ anon_out # <<>>
    /\ NonEmpty(Field(anon_in[1], "user_id"))
    /\ Field(anon_in[1], "user_id") = Field(anon_in[2], "user_id")
    /\ anon_in[1]["timestamp"] # anon_in[2]["timestamp"]
    /\ RawHour(anon_in[1]["timestamp"]) = RawHour(anon_in[2]["timestamp"])
    /\ Field(anon_in[1], "ip_address") # Field(anon_in[2], "ip_address")
    /\ Field(anon_in[1], "session_id") # Field(anon_in[2], "session_id")
    /\ anon_out[1].doc["unique_session_id"] = anon_out[2].doc["unique_session_id"]

\* the input of the visitor digest the claim names for event e
ExpectedVisitor(e) ==
    IF NonEmpty(Field(e, "user_id")) THEN Field(e, "user_id")
    ELSE IF NonEmpty(Field(e, "session_id")) THEN Field(e, "session_id")
    ELSE IF NonEmpty(Field(e, "ip_address")) /\ NonEmpty(Field(e, "user_agent"))
         THEN e["ip_address"] \o "|" \o e["user_agent"] \o "|"
                  \o DateStr(e["timestamp"][1])
                  \o Pad2(e["timestamp"][2] \div SecondsPerHour)
    ELSE ""

\* C10: visitor_id is the SHA-224 of user_id when that is non-empty, otherwise
\* of session_id when that is non-empty, otherwise of ip|user_agent|timeslice
\* when both are present, otherwise of the empty input; an input of lower
\* priority has no influence when one of higher priority is present.
C10_VisitorPriority ==
    anon_out # <<>> =>
        /\ \A i \in {1, 2} :
              /\ anon_out[i].status = "ok"
              /\ anon_out[i].doc["visitor_id"] = sha224(ExpectedVisitor(anon_in[i]))
        /\ (/\ NonEmpty(Field(anon_in[1], "user_id"))
            /\ Field(anon_in[1], "user_id") = Field(anon_in[2], "user_id"))
              => anon_out[1].doc["visitor_id"] = anon_out[2].doc["visitor_id"]
        /\ (/\ ~NonEmpty(Field(anon_in[1], "user_id"))
            /\ ~NonEmpty(Field(anon_in[2], "user_id"))
            /\ NonEmpty(Field(anon_in[1], "session_id"))
            /\ Field(anon_in[1], "session_id") = Field(anon_in[2], "session_id"))
              => anon_out[1].doc["visitor_id"] = anon_out[2].doc["visitor_id"]

\* a user id wins over a session id and an address it comes with; beside it, an
\* event without any identity gets the digest of the empty input
C10_Witness ==
    /\ anon_out # <<>>
    /\ NonEmpty(Field(anon_in[1], "user_id"))
    /\ NonEmpty(Field(anon_in[1], "session_id"))
    /\ NonEmpty(Field(anon_in[1], "ip_address"))
    /\ NonEmpty(Field(anon_in[1], "user_agent"))
    /\ anon_out[1].doc["visitor_id"] = sha224(anon_in[1]["user_id"])
    /\ DOMAIN anon_in[2] \cap {"ip_address", "user_agent", "user_id"} = {}
    /\ anon_in[2]["session_id"] = None
    /\ anon_out[2].doc["visitor_id"] = sha224("")

\* the event has no user id, no session id, and no address or no user agent
NoIdentity(e) ==
    /\ ~NonEmpty(Field(e, "user_id"))
    /\ ~NonEmpty(Field(e, "session_id"))
    /\ ~NonEmpty(Field(e, "ip_address")) \/ ~NonEmpty(Field(e, "user_agent"))

\* C11 as stated: the event anonymize_user returns for an event without
\* identity has no unique_session_id field.
C11_Claim ==
    anon_out # <<>> =>
        \A i \in {1, 2} :
            NoIdentity(anon_in[i])
                => /\ anon_out[i].status = "ok"
                   /\ "unique_session_id" \notin DOMAIN anon_out[i].doc

\* C12 as stated: the event anonymize_user returns always has a country field,
\* null when there is no address or the lookup finds nothing, so that
\* build_file_unique_id, reading doc['country'] behind it, finds the key.
C12_Claim ==
    anon_out # <<>> =>
        \A i \in {1, 2} :
            /\ anon_out[i].status = "ok"
            /\ "country" \in DOMAIN anon_out[i].doc
            /\ ~NonEmpty(Field(anon_in[i], "ip_address"))
                  => anon_out[i].doc["country"] = None
            /\ build_file_unique_id(
                   Update(file_download_event_builder(anon_in[i]["timestamp"], EmptyDoc),
                          anon_out[i].doc)).status = "ok"

RawDay(iso) == iso[1]

\* C13 as stated: two events of one visitor (the same user_id, or without
\* user_id the same session_id) on two different days get different
\* visitor_id values.
C13_Claim ==
    (/\ anon_out # <<>>
     /\ RawDay(anon_in[1]["timestamp"]) # RawDay(anon_in[2]["timestamp"])
     /\ \/ /\ NonEmpty(Field(anon_in[1], "user_id"))
           /\ Field(anon_in[1], "user_id") = Field(anon_in[2], "user_id")
        \/ /\ ~NonEmpty(Field(anon_in[1], "user_id"))
           /\ ~NonEmpty(Field(anon_in[2], "user_id"))
           /\ NonEmpty(Field(anon_in[1], "session_id"))
           /\ Field(anon_in[1], "session_id") = Field(anon_in[2], "session_id"))
    => anon_out[1].doc["visitor_id"] # anon_out[2].doc["visitor_id"]

-----------------------------------------------------------------------------
(* Properties of the indexer, continued *)

\* the raw event had a user agent that the robot classifier flags
RobotAgent(msg) == Has(msg, "user_agent") /\ is_robot(msg["user_agent"])

RobotFlagged(p) ==
    /\ "is_robot" \in DOMAIN ActionOf(p)._source
    /\ ActionOf(p)._source["is_robot"] \in BOOLEAN
    /\ ActionOf(p)._source["is_robot"] <=> RobotAgent(p.msg)

\* C14 as stated: every event indexed through the default chain or a
\* registered chain carries a boolean is_robot and a boolean is_machine, each
\* true only if the raw event had a user agent that the classifier flags.
C14_Original ==
    \A p \in Emitted :
        /\ RobotFlagged(p)
        /\ "is_machine" \in DOMAIN ActionOf(p)._source
        /\ ActionOf(p)._source["is_machine"] \in BOOLEAN

\* C14 amended: every such event carries a boolean is_robot, true exactly when
\* the raw event had a user agent that the classifier flags; flag_machines is
\* in none of these chains and the event carries no is_machine.
C14_RobotFlag ==
    /\ "flag_machines" \notin {preprocessors[i] : i \in DOMAIN preprocessors}
    /\ \A p \in Emitted :
          /\ RobotFlagged(p)
          /\ "is_machine" \notin DOMAIN ActionOf(p)._source
    /\ \A d \in store : "is_robot" \in DOMAIN d._source

\* a robot's event and another user's event are in the store, flagged and not
C14_Witness ==
    \E p, q \in Emitted :
        /\ RobotAgent(p.msg) /\ ~RobotAgent(q.msg)
        /\ Has(q.msg, "user_agent")
        /\ \E d, e \in store :
              /\ AsAction(d, event_type) = ActionOf(p) /\ d._source["is_robot"]
              /\ AsAction(e, event_type) = ActionOf(q) /\ ~e._source["is_robot"]

\* what actionsiter makes of the message of p under the window W
UnderWindow(p, W) == Process(p.msg, preprocessors, event_type, W, utcoffset)

\* the stored timestamp and the index of p are those of its raw timestamp, and
\* under every window actionsiter makes the same bulk action of p but for _id
WindowFrame(p) ==
    /\ ActionOf(p)._source["timestamp"]
          = <<p.msg["timestamp"][1], p.msg["timestamp"][2]>>
    /\ ActionOf(p)._index
          = IndexName(event_type, DateStr(ActionOf(p)._source["timestamp"][1]))
    /\ \A W \in Windows :
          LET r == UnderWindow(p, W)
          IN  /\ r.status = "emitted"
              /\ [r.action EXCEPT !._id = ActionOf(p)._id] = ActionOf(p)

\* C15: for a processed event, the stored timestamp (the input timestamp cut
\* to whole seconds) and the index name (prefix, event type and the date of the
\* stored timestamp) are the same under every double_click_window; of the bulk
\* action only _id depends on the window.  Stated of each event as it comes
\* out of actionsiter.
C15_WindowOnlyId ==
    [][(pulled' # pulled /\ pulled'[Len(pulled')].status = "emitted")
          => WindowFrame(pulled'[Len(pulled')])]_vars

\* an event with microseconds is stored; under another window it has another id
C15_Witness ==
    \E p \in Emitted :
        /\ Len(p.msg["timestamp"]) = 3
        /\ \E d \in store : AsAction(d, event_type) = ActionOf(p)
        /\ \E W \in Windows : UnderWindow(p, W).action._id # ActionOf(p)._id

\* both actions have been executed and the store holds a document for each
BothStored(a, b) ==
    (\E i, j \in DOMAIN sent : sent[i] = a /\ sent[j] = b)
        => \E d, e \in store :
              /\ d # e
              /\ AsAction(d, event_type) = a
              /\ AsAction(e, event_type) = b

\* C16 as stated: with a window of 0, two events with the same unique_id and
\* visitor_id and different timestamps get different document ids, and neither
\* overwrites the other.
C16_Original ==
    \A p, q \in Emitted :
        (/\ double_click_window = 0
         /\ SameIdentity(ActionOf(p), ActionOf(q))
         /\ p.msg["timestamp"] # q.msg["timestamp"])
        => /\ ActionOf(p)._id # ActionOf(q)._id
           /\ BothStored(ActionOf(p), ActionOf(q))

\* C16 amended: the same, for two events whose timestamps differ in their
\* whole seconds.
C16_NoCollapse ==
    \A p, q \in Emitted :
        (/\ double_click_window = 0
         /\ SameIdentity(ActionOf(p), ActionOf(q))
         /\ StoredSecond(ActionOf(p)) # StoredSecond(ActionOf(q)))
        => /\ ActionOf(p)._id # ActionOf(q)._id
           /\ BothStored(ActionOf(p), ActionOf(q))

\* with a window of 0, two events of one visitor a second apart are both stored
C16_Witness ==
    \E p, q \in Emitted :
        /\ double_click_window = 0
        /\ SameIdentity(ActionOf(p), ActionOf(q))
        /\ StoredSecond(ActionOf(q)) = StoredSecond(ActionOf(p)) + 1
        /\ Cardinality(store) = 2
        /\ \E d, e \in store :
              AsAction(d, event_type) = ActionOf(p) /\ AsAction(e, event_type) = ActionOf(q)

-----------------------------------------------------------------------------
(* Properties of the aggregator *)

\* two runs in a row that started from the same bookmark, with the same upper
\* bound, over the same event documents, and wrote everything
SameRunTwice(k) ==
    /\ agg_runs[k].outcome = "ok" /\ agg_runs[k + 1].outcome = "ok"
    /\ agg_runs[k].before = agg_runs[k + 1].before
    /\ agg_runs[k].upper = agg_runs[k + 1].upper
    /\ agg_runs[k].events = agg_runs[k + 1].events

DurablyWritten ==
    UNION {agg_runs[k].written : k \in DOMAIN agg_runs}
        \cup UNION {agg_run[i].written : i \in DOMAIN agg_run}

\* C18: in every run in which the write-back fails the bookmark after the run
\* is the bookmark before it; in any state the bookmark is not later than the
\* latest event timestamp whose aggregate has been written.
C18_BookmarkSafety ==
    /\ \A k \in DOMAIN agg_runs :
          agg_runs[k].outcome = "failed" => agg_runs[k].after = agg_runs[k].before
    /\ (agg_runs # <<>> /\ agg_runs[Len(agg_runs)].outcome = "failed" /\ agg_run = <<>>)
          => bookmark = agg_runs[Len(agg_runs)].before
    /\ bookmark # NoBookmark
          => \E e \in DurablyWritten : EpochSecond(bookmark) <= EpochSecond(e.timestamp)

\* a run over two days failed after the first day's document was written
C18_Witness ==
    /\ agg_run = <<>>
    /\ agg_runs # <<>>
    /\ LET r == agg_runs[Len(agg_runs)]
       IN  /\ r.outcome = "failed"
           /\ r.written # {}
           /\ r.written # r.consumed
           /\ aggregates # {}
           /\ bookmark = r.before

-----------------------------------------------------------------------------
(* Properties of the event builders *)

\* the fields test_file_download_event_builder and
\* test_file_preview_event_builder expect the built event to be made of
ExpectedFileFields ==
    {"timestamp", "bucket_id", "file_id", "file_key", "size", "referrer"}
        \cup IdentityKeys

\* C20 as stated: the event file_download_event_builder or
\* file_preview_event_builder makes of an empty event has exactly the fields
\* timestamp, bucket_id, file_id, file_key, size, referrer and the four
\* identity fields of get_user.
C20_Claim ==
    event_type \in {"file-download", "file-preview"}
        => \A i \in DOMAIN pulled : DOMAIN pulled[i].msg = ExpectedFileFields

\* the fields test_record_view_event_builder expects the built event to be
\* made of
ExpectedRecordViewFields ==
    {"timestamp", "record_id", "pid_type", "pid_value", "referrer"}
        \cup IdentityKeys

\* C21 as stated: the event record_view_event_builder makes of an empty event
\* has exactly the fields timestamp, record_id, pid_type, pid_value, referrer
\* and the four identity fields of get_user.
C21_Claim ==
    event_type = "record-view"
        => \A i \in DOMAIN pulled : DOMAIN pulled[i].msg = ExpectedRecordViewFields

-----------------------------------------------------------------------------
(* Part 3: the REST views (invenio_stats/views.py) and the helpers of      *)
(* invenio_stats/utils.py they rest on.                                    *)

\* no event, anonymization or aggregation is in progress
PipelineIdle ==
    /\ IndexerInit({"plain"}, {default_double_click_window}, {0}, {}, {}, {})
    /\ AnonIdle
    /\ AggIdle

-----------------------------------------------------------------------------
(* StatsQueryResource.post *)

\* utils.AllowAllPermission
AllowAllPermission == "Allow"

\* permission.can()
can(permission) == permission \in {AllowAllPermission, "Grant"}

\* current_stats.queries: the statistics registered, each with the permission
\* factory of its own (None when it has none); the factories stand for the
\* three things a factory can do: return a permission that grants, one that
\* forbids, or None
queries ==
    [stat \in {"open", "granted", "denied", "unset"} |->
        [permission_factory |->
            CASE stat = "open" -> None
              [] stat = "granted" -> "grants"
              [] stat = "denied" -> "forbids"
              [] stat = "unset" -> "returns_none"]]

\* the call factory(query_name, params) of a query's own permission factory
CallFactory(factory) ==
    CASE factory = "grants" -> "Grant"
      [] factory = "forbids" -> "Deny"
      [] factory = "returns_none" -> None

default_permission_factory(query_name, params) ==
    IF queries[query_name].permission_factory = None
    THEN AllowAllPermission
    ELSE CallFactory(queries[query_name].permission_factory)

\* STATS_PERMISSION_FACTORY, which current_stats.permission_factory loads
STATS_PERMISSION_FACTORY(query_name, params) ==
    default_permission_factory(query_name, params)

\* (faulty variant) no permission stops the query
Forbidden_never(permission) == FALSE

\* post: permission is not None and not permission.can()
Forbidden(permission) == permission # None /\ ~can(permission)

\* post: the status abort is called with
AbortCode(is_authenticated) == IF is_authenticated THEN 403 ELSE 401

\* post: config is a dict whose keys are {'stat', 'params'} or {'stat'}
ValidConfig(config) ==
    /\ config.json = "object"
    /\ config.keys = {"stat", "params"} \/ config.keys = {"stat"}

\* the JSON values a request gives as config of a query
Configs ==
    {[json |-> "null", keys |-> {}, stat |-> None],
     [json |-> "array", keys |-> {}, stat |-> None],
     [json |-> "object", keys |-> {"stat", "size"}, stat |-> "open"]}
        \cup {[json |-> "object", keys |-> ks, stat |-> s] :
                 ks \in {{"stat"}, {"stat", "params"}},
                 s \in DOMAIN queries \cup {"unknown"}}

\* config.get('params', {})
ParamsOf(config) == IF "params" \in config.keys THEN "params" ELSE "{}"

PostEnd(kind, code, body) == <<[kind |-> kind, code |-> code, body |-> body]>>

\* the most queries one request asks for
MaxQueries == 2

\* the name the i-th query of the request goes by
QueryName(i) == <<"q1", "q2", "q3">>[i]

\* post, first half of one turn of the loop over data.items(): the config is
\* validated, the statistic looked up and the permission asked for; the
\* request ends here when any of the three fails
PostCheck ==
    /\ post_pc = "loop"
    /\ post_data # <<>>
    /\ LET config == Head(post_data).config
           stat == config.stat
           params == ParamsOf(config)
       IN  IF ~ValidConfig(config)
           THEN /\ post_response' = PostEnd("raise", 0, "InvalidRequestInputError")
                /\ post_pc' = "done"
                /\ UNCHANGED post_log
           ELSE IF stat \notin DOMAIN queries
           THEN /\ post_response' = PostEnd("raise", 0, "UnknownQueryError")
                /\ post_pc' = "done"
                /\ UNCHANGED post_log
           ELSE LET permission == STATS_PERMISSION_FACTORY(stat, params)
                IN  /\ post_log' = Append(post_log,
                            [op |-> "permission", stat |-> stat,
                             permission |-> permission])
                    /\ IF Forbidden(permission)
                       THEN /\ post_response' =
                                   PostEnd("abort", AbortCode(authenticated), "")
                            /\ post_pc' = "done"
                       ELSE /\ post_pc' = "run"
                            /\ UNCHANGED post_response
    /\ UNCHANGED <<authenticated, post_data, post_result, post_frame>>

\* post, second half of the turn: the query is built and run; how the run
\* ends is the store's affair
PostRun ==
    /\ post_pc = "run"
    /\ LET item == Head(post_data)
       IN  /\ post_log' = Append(post_log,
                   [op |-> "run", stat |-> item.config.stat, permission |-> "-"])
           /\ \E outcome \in {"ok", "ValueError", "NotFoundError"} :
                CASE outcome = "ok" ->
                        /\ post_result' = Append(post_result,
                               [query_name |-> item.query_name,
                                value |-> item.config.stat])
                        /\ post_data' = Tail(post_data)
                        /\ post_pc' = "loop"
                        /\ UNCHANGED post_response
                  [] outcome = "ValueError" ->
                        /\ post_response' =
                               PostEnd("raise", 0, "InvalidRequestInputError")
                        /\ post_pc' = "done"
                        /\ UNCHANGED <<post_result, post_data>>
                  [] outcome = "NotFoundError" ->
                        /\ post_response' = PostEnd("return", 0, None)
                        /\ post_pc' = "done"
                        /\ UNCHANGED <<post_result, post_data>>
    /\ UNCHANGED <<authenticated, post_frame>>

\* post: the loop is over, make_response(result)
PostReturn ==
    /\ post_pc = "loop"
    /\ post_data = <<>>
    /\ post_response' = PostEnd("return", 200, post_result)
    /\ post_pc' = "done"
    /\ UNCHANGED <<authenticated, post_data, post_result, post_log, post_frame>>

NextPost == PostCheck \/ PostRun \/ PostReturn

\* a request with up to MaxQueries queries, of a user logged in or not
InitPost ==
    /\ PipelineIdle
    /\ authenticated \in BOOLEAN
    /\ \E n \in 0..MaxQueries :
          post_data \in {[i \in 1..n |-> [query_name |-> QueryName(i), config |-> c[i]]] :
                            c \in [1..n -> Configs]}
    /\ post_pc = "loop"
    /\ post_result = <<>>
    /\ post_log = <<>>
    /\ post_response = <<>>
    /\ SaltIdle
    /\ ReportIdle

SpecPost == InitPost /\ [][NextPost]_vars

\* C22: a query is run only right after the permission factory's permission
\* for it was granted or was None, and a permission that forbids ends the
\* request by abort, with 403 for an authenticated user and 401 otherwise,
\* without a result.
C22_PermissionBeforeRun ==
    \A i \in DOMAIN post_log :
        /\ post_log[i].op = "run"
              => /\ i > 1
                 /\ post_log[i - 1].op = "permission"
                 /\ post_log[i - 1].stat = post_log[i].stat
                 /\ \/ post_log[i - 1].permission = None
                    \/ can(post_log[i - 1].permission)
        /\ (post_log[i].op = "permission" /\ post_log[i].permission = "Deny")
              => /\ i = Len(post_log)
                 /\ post_response =
                        PostEnd("abort", IF authenticated THEN 403 ELSE 401, "")

\* a request whose first query ran and whose second was forbidden
C22_Witness ==
    /\ Len(post_log) = 3
    /\ post_log[2].op = "run"
    /\ post_log[3].permission = "Deny"
    /\ post_pc = "done"

-----------------------------------------------------------------------------
(* Properties of the chains *)

\* C23 as stated: with the default chain as with every chain of
\* register_events, an event that survives its chain has a unique_id when
\* hash_id is called: hash_id never fails.
C23_Claim ==
    \A w \in Workers : error[w] # "AttributeError"

\* C24 as stated: two file-download (or file-preview) events to which
\* build_file_unique_id gives the same unique_id have the same cur_user_id.
C24_Claim ==
    event_type \in {"file-download", "file-preview"}
        => \A p, q \in Emitted :
              ActionOf(p)._source["unique_id"] = ActionOf(q)._source["unique_id"]
                  => ActionOf(p)._source["cur_user_id"] = ActionOf(q)._source["cur_user_id"]

-----------------------------------------------------------------------------
(* utils.get_anonymization_salt, called concurrently *)

\* the days the timestamps of the calls fall on
SaltDays == {0, 1}

\* b64encode(os.urandom(32)): the values a call can draw
Salts == {"salt1", "salt2", "salt3"}

\* salt = current_cache.get(salt_key)
SaltGet(c) ==
    /\ salt_pc[c] = "get"
    /\ salt_local' = [salt_local EXCEPT ![c] = salt_cache[salt_ts[c]]]
    /\ salt_pc' = [salt_pc EXCEPT ![c] =
                      IF ~Truthy(salt_cache[salt_ts[c]]) THEN "set" ELSE "return"]
    /\ UNCHANGED <<salt_cache, salt_ts, salt_ret, salt_frame>>

\* if not salt: a new salt is drawn and current_cache.set(salt_key, salt, ..)
SaltSet(c) ==
    /\ salt_pc[c] = "set"
    /\ \E salt \in Salts :
          /\ salt_local' = [salt_local EXCEPT ![c] = salt]
          /\ salt_cache' = [salt_cache EXCEPT ![salt_ts[c]] = salt]
    /\ salt_pc' = [salt_pc EXCEPT ![c] = "return"]
    /\ UNCHANGED <<salt_ts, salt_ret, salt_frame>>

\* return salt
SaltReturn(c) ==
    /\ salt_pc[c] = "return"
    /\ salt_ret' = [salt_ret EXCEPT ![c] = salt_local[c]]
    /\ salt_pc' = [salt_pc EXCEPT ![c] = "done"]
    /\ UNCHANGED <<salt_cache, salt_ts, salt_local, salt_frame>>

NextSalt == \E c \in Workers : SaltGet(c) \/ SaltSet(c) \/ SaltReturn(c)

\* every worker calls get_anonymization_salt once; the cache holds a salt for
\* some of the days already, and no entry expires while the calls run
InitSalt ==
    /\ PipelineIdle
    /\ PostIdle
    /\ salt_cache \in [SaltDays -> {None, "salt0"}]
    /\ salt_ts \in [Workers -> SaltDays]
    /\ salt_pc = [c \in Workers |-> "get"]
    /\ salt_local = [c \in Workers |-> None]
    /\ salt_ret = [c \in Workers |-> None]
    /\ ReportIdle

SpecSalt == InitSalt /\ [][NextSalt]_vars

\* C25 as stated: whatever the interleaving, the calls of
\* get_anonymization_salt for timestamps of the same day, made while the
\* cache entry does not expire, all return the same salt.
C25_Claim ==
    \A c, d \in Workers :
        (salt_pc[c] = "done" /\ salt_pc[d] = "done" /\ salt_ts[c] = salt_ts[d])
            => salt_ret[c] = salt_ret[d]

\* C26 as stated: every event of search_event_builder, with or without 'q'
\* and 'search_type' among the search arguments, passes
\* build_search_detail_condition and build_search_unique_id without an
\* exception and ends with a unique_id.
C26_Claim ==
    event_type = "search"
        => \A i \in DOMAIN pulled :
              Parses(pulled[i].msg["timestamp"])
                  => /\ pulled[i].called = Preprocessors("search")
                     /\ pulled[i].status = "emitted"
                     /\ Has(ActionOf(pulled[i])._source, "unique_id")

-----------------------------------------------------------------------------
(* utils.QueryFileReportsHelper and views.QueryFileUsingPerUseReport *)
(* An aggregation result is [buckets |-> <<bucket, ..>>], a bucket        *)
(* [key, value] or, when it has buckets of its own, [key, value, buckets]. *)
(* What query.run gave is [status, buckets]: status "ok" with the buckets, *)
(* "none" when it returned None, "raise" when it raised.                   *)

\* 'Administrator' in userrole
ContainsAdministrator(userrole) ==
    userrole \in {"Administrator", "System Administrator", "Repository Administrator"}

\* calc_file_stats_reports: the loop over index['buckets']
RECURSIVE FileStatsUsers(_, _)
FileStatsUsers(users, data) ==
    IF users = <<>> THEN data
    ELSE LET user == Head(users)
             hits == {j \in DOMAIN user.buckets : user.buckets[j].key = 1}
             first == CHOOSE j \in hits : \A k \in hits : j <= k
             licensed == IF hits = {} THEN data
                         ELSE [data EXCEPT !.site_license = @ + user.buckets[first].value]
             userrole == user.key
             count == user.value
         IN  FileStatsUsers(Tail(users),
                CASE userrole = "guest" ->
                        [licensed EXCEPT !.no_login = @ + count]
                  [] userrole = "Contributor" ->
                        [licensed EXCEPT !.reg = @ + count, !.login = @ + count]
                  [] userrole # "guest" /\ userrole # "Contributor"
                     /\ ContainsAdministrator(userrole) ->
                        [licensed EXCEPT !.admin = @ + count, !.login = @ + count]
                  [] OTHER -> [licensed EXCEPT !.login = @ + count])

\* calc_file_stats_reports: the loop over file['buckets']
RECURSIVE FileStatsIndexes(_, _, _)
FileStatsIndexes(file, indexes, data_list) ==
    IF indexes = <<>> THEN data_list
    ELSE LET index == Head(indexes)
             data == [file_key |-> file.key, index_list |-> index.key,
                      total |-> index.value, admin |-> 0, reg |-> 0, login |-> 0,
                      no_login |-> 0, site_license |-> 0]
         IN  FileStatsIndexes(file, Tail(indexes),
                Append(data_list, FileStatsUsers(index.buckets, data)))

\* calc_file_stats_reports: the loop over res['buckets']
RECURSIVE FileStatsFiles(_, _)
FileStatsFiles(files, data_list) ==
    IF files = <<>> THEN data_list
    ELSE FileStatsFiles(Tail(files),
            FileStatsIndexes(Head(files), Head(files).buckets, data_list))

calc_file_stats_reports(res, data_list) == FileStatsFiles(res["buckets"], data_list)

DownloadPerUser == "get-file-download-per-user-report"

PreviewPerUser == "get-file-preview-per-user-report"

\* calc_file_per_using_report, first loop: one entry per download bucket
RECURSIVE PerUserDownloads(_, _)
PerUserDownloads(items, data_list) ==
    IF items = <<>> THEN data_list
    ELSE LET item == Head(items)
             data == [cur_user_id |-> item.key, total_download |-> item.value]
         IN  PerUserDownloads(Tail(items), Put(data_list, item.key, data))

\* calc_file_per_using_report, second loop: the preview buckets, added to the
\* entry their user has or entered anew
RECURSIVE PerUserPreviews(_, _)
PerUserPreviews(items, data_list) ==
    IF items = <<>> THEN data_list
    ELSE LET item == Head(items)
             data == [cur_user_id |-> item.key, total_preview |-> item.value]
         IN  PerUserPreviews(Tail(items),
                IF Has(data_list, item.key)
                THEN Put(data_list, item.key, Update(data_list[item.key], data))
                ELSE Put(data_list, item.key, data))

\* QueryFileReportsHelper.calc_file_per_using_report, and the Calculation of
\* the view QueryFileUsingPerUseReport, which is the same code; a result that
\* is None has no ['buckets'], and what was entered before the TypeError stays
calc_file_per_using_report(res, data_list) ==
    IF res[DownloadPerUser].status = "none"
    THEN [status |-> "raise", doc |-> data_list, error |-> "TypeError"]
    ELSE LET downloads == PerUserDownloads(res[DownloadPerUser].buckets, data_list)
         IN  IF res[PreviewPerUser].status = "none"
             THEN [status |-> "raise", doc |-> downloads, error |-> "TypeError"]
             ELSE Ok(PerUserPreviews(res[PreviewPerUser].buckets, downloads))

\* QueryFileReportsHelper.Calculation
Calculation(res, data_list) ==
    IF ~Has(res, "buckets")
    THEN [status |-> "raise", doc |-> data_list, error |-> "KeyError"]
    ELSE IF res["buckets"] # None
    THEN Ok(calc_file_stats_reports(res, data_list))
    ELSE IF ~HasAll(res, {DownloadPerUser, PreviewPerUser})
    THEN [status |-> "raise", doc |-> data_list, error |-> "KeyError"]
    ELSE IF res[DownloadPerUser].status # "none" /\ res[PreviewPerUser].status # "none"
    THEN calc_file_per_using_report(res, data_list)
    ELSE Ok(data_list)

\* get_file_per_using_report of the helper (by_helper) and get of the view:
\* the two queries are run, in this order, and their results handed to
\* Calculation; whatever is raised on the way is logged and all_list returned
\* as it is by then (params only reach the queries)
FilePerUsingReport(year, month, runs, by_helper) ==
    LET query_month == <<year, month>>
        all_res == [q \in {DownloadPerUser, PreviewPerUser} |-> runs[q]]
        raised == \E q \in DOMAIN runs : runs[q].status = "raise"
        r == IF by_helper THEN Calculation(all_res, EmptyDoc)
             ELSE calc_file_per_using_report(all_res, EmptyDoc)
    IN  [date |-> query_month,
         all |-> IF raised THEN EmptyDoc ELSE r.doc]

\* QueryFileReportsHelper.get: the report the event names, [] for any other
\* (the reports of 'file_download' and 'file_preview' are not part of this
\* model)
QueryFileReportsHelper_get(event, year, month, runs) ==
    IF event = "file_using_per_user"
    THEN FilePerUsingReport(year, month, runs, TRUE)
    ELSE <<>>

\* QueryFileUsingPerUseReport.get
QueryFileUsingPerUseReport_get(year, month, runs) ==
    FilePerUsingReport(year, month, runs, FALSE)

\* what a per-user query can give: buckets of distinct users, None, or an
\* exception
PerUserRuns(v1, v2) ==
    {[status |-> "ok", buckets |-> b] :
        b \in {<<>>, <<[key |-> "1", value |-> v1]>>, <<[key |-> "guest", value |-> v2]>>,
               <<[key |-> "guest", value |-> v2], [key |-> "1", value |-> v1]>>}}
        \cup {[status |-> "none", buckets |-> <<>>], [status |-> "raise", buckets |-> <<>>]}

FileReportRequests ==
    {[call |-> c, event |-> e, year |-> 2020, month |-> 2,
      runs |-> [q \in {DownloadPerUser, PreviewPerUser} |->
                   IF q = DownloadPerUser THEN d ELSE p]] :
        c \in {"QueryFileReportsHelper.get", "QueryFileUsingPerUseReport.get"},
        e \in {"file_using_per_user", "site_access"},
        d \in PerUserRuns(2, 1), p \in PerUserRuns(3, 4)}

\* the call is served
FileReport ==
    /\ rest_response = <<>>
    /\ rest_response' =
          <<IF rest_request.call = "QueryFileReportsHelper.get"
            THEN QueryFileReportsHelper_get(rest_request.event, rest_request.year,
                                            rest_request.month, rest_request.runs)
            ELSE QueryFileUsingPerUseReport_get(rest_request.year, rest_request.month,
                                                rest_request.runs)>>
    /\ UNCHANGED <<rest_request, rest_local, report_frame>>

NextFileReport == FileReport

InitFileReport ==
    /\ PipelineIdle
    /\ PostIdle
    /\ SaltIdle
    /\ rest_request \in FileReportRequests
    /\ rest_local = <<>>
    /\ rest_response = <<>>

SpecFileReport == InitFileReport /\ [][NextFileReport]_vars

\* the user keys of buckets, and the value of the bucket of a key
BucketKeys(buckets) == {buckets[i].key : i \in DOMAIN buckets}

BucketValue(buckets, key) ==
    buckets[CHOOSE i \in DOMAIN buckets : buckets[i].key = key].value

\* C27 as stated: when both per-user queries succeed,
\* QueryFileReportsHelper.get with event 'file_using_per_user' returns under
\* 'all' one entry for every user key of the download buckets or the preview
\* buckets, with total_download and total_preview from those buckets.
C27_Claim ==
    (/\ rest_response # <<>>
     /\ rest_request.call = "QueryFileReportsHelper.get"
     /\ rest_request.event = "file_using_per_user"
     /\ \A q \in DOMAIN rest_request.runs : rest_request.runs[q].status = "ok")
        => LET downloads == rest_request.runs[DownloadPerUser].buckets
               previews == rest_request.runs[PreviewPerUser].buckets
               all == rest_response[1].all
           IN  /\ DOMAIN all = BucketKeys(downloads) \cup BucketKeys(previews)
               /\ \A k \in BucketKeys(downloads) :
                     Get(all[k], "total_download", -1) = BucketValue(downloads, k)
               /\ \A k \in BucketKeys(previews) :
                     Get(all[k], "total_preview", -1) = BucketValue(previews, k)

\* the same of the view QueryFileUsingPerUseReport, whose code is the helper's
\* without the first test of Calculation
FileUsingPerUseReport_Populated ==
    (/\ rest_response # <<>>
     /\ rest_request.call = "QueryFileUsingPerUseReport.get"
     /\ \A q \in DOMAIN rest_request.runs : rest_request.runs[q].status = "ok")
        => LET downloads == rest_request.runs[DownloadPerUser].buckets
               previews == rest_request.runs[PreviewPerUser].buckets
               all == rest_response[1].all
           IN  /\ DOMAIN all = BucketKeys(downloads) \cup BucketKeys(previews)
               /\ \A k \in BucketKeys(downloads) :
                     Get(all[k], "total_download", -1) = BucketValue(downloads, k)
               /\ \A k \in BucketKeys(previews) :
                     Get(all[k], "total_preview", -1) = BucketValue(previews, k)

-----------------------------------------------------------------------------
(* views.QueryRecordViewCount.get_data and QueryFileStatsCount.get_data:   *)
(* the list of periods.  A datetime is [year, month, day]; the string      *)
(* strftime('%Y-%m') makes of it is the pair <<year, month>>.              *)

\* config.PROVIDE_PERIOD_YEAR
PROVIDE_PERIOD_YEAR == 5

\* the proleptic Gregorian calendar of datetime
IsLeap(year) == year % 4 = 0 /\ (year % 100 # 0 \/ year % 400 = 0)

DaysInMonth(year, month) ==
    CASE month \in {4, 6, 9, 11} -> 30
      [] month = 2 -> IF IsLeap(year) THEN 29 ELSE 28
      [] OTHER -> 31

\* datetime(year, month, day)
datetime(year, month, day) == [year |-> year, month |-> month, day |-> day]

\* d1 < d2 of two datetimes
Before(d1, d2) ==
    \/ d1.year < d2.year
    \/ d1.year = d2.year /\ d1.month < d2.month
    \/ d1.year = d2.year /\ d1.month = d2.month /\ d1.day < d2.day

\* d - timedelta(days=days)
RECURSIVE MinusDays(_, _)
MinusDays(d, days) ==
    IF days < d.day
    THEN datetime(d.year, d.month, d.day - days)
    ELSE LET year == IF d.month = 1 THEN d.year - 1 ELSE d.year
             month == IF d.month = 1 THEN 12 ELSE d.month - 1
         IN  MinusDays(datetime(year, month, DaysInMonth(year, month)), days - d.day)

\* (faulty variant) the step back is two days short and stays in the month
StepBack_short(start) ==
    LET back == MinusDays(start, 14)
    IN  datetime(back.year, back.month, 15)

\* get_data, the body of the loop after the append:
\* start -= timedelta(days=16); start = datetime(start.year, start.month, 15)
StepBack(start) ==
    LET back == MinusDays(start, 16)
    IN  datetime(back.year, back.month, 15)

\* get_data with get_period: provide_year .. end, from the two readings of the
\* clock, datetime.now().year and datetime.now().month
PeriodLocals(now_year, now_month) ==
    LET provide_year == PROVIDE_PERIOD_YEAR
        sYear == now_year[1]
        sMonth == now_month[2]
        eYear == sYear - provide_year
    IN  [start |-> datetime(sYear, sMonth, 15), end |-> datetime(eYear, 1, 1),
         period |-> <<>>]

\* get_data up to the loop: when a query raises, the except clause returns an
\* empty period; without get_period the result has no period (the counts of
\* the result are left out)
GetDataBegin ==
    /\ rest_request.call = "get_data"
    /\ rest_local = <<>>
    /\ rest_response = <<>>
    /\ IF ~rest_request.queries_ok
       THEN rest_response' = <<[period |-> <<>>]>> /\ UNCHANGED rest_local
       ELSE IF ~rest_request.get_period
       THEN rest_response' = <<EmptyDoc>> /\ UNCHANGED rest_local
       ELSE /\ rest_local' = <<PeriodLocals(rest_request.now_year,
                                            rest_request.now_month)>>
            /\ UNCHANGED rest_response
    /\ UNCHANGED <<rest_request, report_frame>>

\* while end < start: one turn of the loop
GetDataStep ==
    /\ rest_request.call = "get_data"
    /\ rest_local # <<>>
    /\ LET l == rest_local[1]
       IN  /\ Before(l.end, l.start)
           /\ rest_local' =
                 <<[l EXCEPT !.period = Append(@, <<l.start.year, l.start.month>>),
                             !.start = StepBack(l.start)]>>
    /\ UNCHANGED <<rest_request, rest_response, report_frame>>

\* the loop is left: result['period'] = period; return result
GetDataReturn ==
    /\ rest_request.call = "get_data"
    /\ rest_local # <<>>
    /\ ~Before(rest_local[1].end, rest_local[1].start)
    /\ rest_response' = <<[period |-> rest_local[1].period]>>
    /\ rest_local' = <<>>
    /\ UNCHANGED <<rest_request, report_frame>>

NextPeriod == GetDataBegin \/ GetDataStep \/ GetDataReturn

\* the month after <<year, month>>
NextMonth(ym) == IF ym[2] = 12 THEN <<ym[1] + 1, 1>> ELSE <<ym[1], ym[2] + 1>>

\* a call of get_data: the clock is read twice, and a month may begin between
\* the two readings
InitPeriod ==
    /\ PipelineIdle
    /\ PostIdle
    /\ SaltIdle
    /\ \E y \in {2019, 2020}, m \in 1..12, get_period \in BOOLEAN, queries_ok \in BOOLEAN :
          \E second \in {<<y, m>>, NextMonth(<<y, m>>)} :
             rest_request = [call |-> "get_data", get_period |-> get_period,
                             queries_ok |-> queries_ok, now_year |-> <<y, m>>,
                             now_month |-> second]
    /\ rest_local = <<>>
    /\ rest_response = <<>>

\* a call that is under way goes on
SpecPeriod == InitPeriod /\ [][NextPeriod]_vars /\ WF_vars(NextPeriod)

\* the i-th month counted back from <<year, month>>, the first being itself
MonthBack(ym, i) ==
    LET k == ym[1] * 12 + (ym[2] - 1) - (i - 1)
    IN  <<k \div 12, (k % 12) + 1>>

\* the call asks for the periods, its queries succeed and the clock shows one
\* current month
PeriodAsked ==
    /\ rest_request.get_period
    /\ rest_request.queries_ok
    /\ rest_request.now_year = rest_request.now_month

\* period holds the months from the current one back, in order, none left out
\* and none twice
CountsBack(period) ==
    \A i \in DOMAIN period : period[i] = MonthBack(rest_request.now_year, i)

-----------------------------------------------------------------------------
(* views.QueryItemRegReport.get for the item registration report, by week. *)
(* A date is its day number, the argument '0' (no date) the number 0; the  *)
(* date string of a histogram bucket carries the zone, as the store writes *)
(* it.  The units 'Day', 'Year', 'Item' and 'Host' are not part of this    *)
(* model.                                                                  *)

\* the attributes of the module invenio_stats.config that the views read
SourceConfig == [PROVIDE_PERIOD_YEAR |-> PROVIDE_PERIOD_YEAR]

\* the rows of a page, where a deployment has given the module the attributes
\* REPORTS_PER_PAGE and TARGET_REPORTS that config.py does not define
ReportsPerPage == 2

DeployedConfig ==
    Update(SourceConfig,
           [REPORTS_PER_PAGE |-> ReportsPerPage,
            TARGET_REPORTS |-> [k \in {"Item Registration", "Item Detail"} |-> k]])

\* page_index * reports_per_page <= i < (page_index + 1) * reports_per_page
OnPage(i, page_index, reports_per_page) ==
    /\ page_index * reports_per_page <= i
    /\ i < (page_index + 1) * reports_per_page

\* ceil(float(total_results) / reports_per_page)
NumPage(total_results, reports_per_page) ==
    (total_results + reports_per_page - 1) \div reports_per_page

\* get, unit 'Week' without both dates: the buckets with a value, within the
\* dates given
ValuableItems(buckets, start_date, end_date) ==
    SelectSeq(buckets,
              LAMBDA item : /\ item.value > 0
                            /\ start_date = 0 \/ item.date >= start_date
                            /\ end_date = 0 \/ item.date <= end_date)

\* get, unit 'Week' without both dates: the loop over items from the i-th
\* (counted from 0) on; d is the date the loop carries along
RECURSIVE WeekItemRows(_, _, _, _, _, _, _)
WeekItemRows(items, i, d, end_date, page_index, reports_per_page, result) ==
    IF i >= Len(items) THEN result
    ELSE LET item == items[i + 1]
             start == IF item = items[1] THEN item.date ELSE d
             d1 == IF end_date # 0 /\ start + 7 - 1 > end_date
                   THEN end_date ELSE start + 7 - 1
             row == [count |-> item.value, start_date |-> start, end_date |-> d1]
         IN  WeekItemRows(items, i + 1, start + 7, end_date, page_index,
                          reports_per_page,
                          IF OnPage(i, page_index, reports_per_page)
                          THEN Append(result, row) ELSE result)

\* res_total['count'] of the query run for the days start .. end
CountOf(start, end) == <<"count", start, end>>

\* get, unit 'Week' with both dates: the loop over range(total_results) from
\* i on; d is the date the loop carries along
RECURSIVE WeekRangeRows(_, _, _, _, _, _, _)
WeekRangeRows(total_results, i, d, end_date, page_index, reports_per_page, result) ==
    IF i >= total_results THEN result
    ELSE LET d1 == IF d + 7 - 1 > end_date THEN end_date ELSE d + 7 - 1
             temp == [start_date |-> d, end_date |-> d1, count |-> CountOf(d, d1)]
         IN  WeekRangeRows(total_results, i + 1, d + 7, end_date, page_index,
                           reports_per_page,
                           IF OnPage(i, page_index, reports_per_page)
                           THEN Append(result, temp) ELSE result)

\* what get gives back: the response, or the exception that leaves it
ItemRegResponse(num_page, page, data) ==
    [raised |-> None, num_page |-> num_page, page |-> page, data |-> data]

ItemRegRaises(e) == [raised |-> e, num_page |-> 0, page |-> 0, data |-> <<>>]

\* QueryItemRegReport.get(target_report, start_date, end_date, unit) for the
\* page p of the request's arguments, with the module config as it is and
\* buckets what the histogram query gives
QueryItemRegReport_get(config, target_report, start_date, end_date, unit, p, buckets) ==
    LET empty_date_flg == start_date = 0 \/ end_date = 0
        page_index == p - 1
    IN  IF ~Has(config, "TARGET_REPORTS") \/ ~Has(config, "REPORTS_PER_PAGE")
        THEN ItemRegRaises("AttributeError")
        ELSE LET reports_per_page == config["REPORTS_PER_PAGE"]
                 items == ValuableItems(buckets, start_date, end_date)
                 weeks == ((end_date - start_date) \div 7) + 1
                 total_results ==
                     IF ~(empty_date_flg \/ end_date >= start_date) \/ unit # "Week"
                     THEN 0
                     ELSE IF empty_date_flg THEN Len(items) ELSE weeks
                 result ==
                     IF ~(empty_date_flg \/ end_date >= start_date) \/ unit # "Week"
                     THEN <<>>
                     ELSE IF empty_date_flg
                     THEN WeekItemRows(items, 0, start_date, end_date, page_index,
                                       reports_per_page, <<>>)
                     ELSE WeekRangeRows(weeks, 0, start_date, end_date, page_index,
                                        reports_per_page, <<>>)
             IN  ItemRegResponse(NumPage(total_results, reports_per_page),
                                 page_index + 1, result)

\* the client asks for the report page after page: page 1, then each further
\* page the first response counts
ItemRegGet ==
    /\ rest_request.call = "QueryItemRegReport.get"
    /\ \/ rest_response = <<>>
       \/ /\ rest_response # <<>>
          /\ rest_response[1].raised = None
          /\ Len(rest_response) < rest_response[1].num_page
    /\ rest_response' =
          Append(rest_response,
                 QueryItemRegReport_get(rest_request.config, rest_request.target_report,
                                        rest_request.start_date, rest_request.end_date,
                                        rest_request.unit, Len(rest_response) + 1,
                                        rest_request.buckets))
    /\ UNCHANGED <<rest_request, rest_local, report_frame>>

NextItemReg == ItemRegGet

\* weekly histograms: one bucket per week from day 1 on, some without items
WeekBuckets ==
    {<<>>,
     <<[date |-> 1, value |-> 2], [date |-> 8, value |-> 0], [date |-> 15, value |-> 5]>>,
     <<[date |-> 1, value |-> 1], [date |-> 8, value |-> 3], [date |-> 15, value |-> 4],
       [date |-> 22, value |-> 0], [date |-> 29, value |-> 6]>>}

InitItemReg ==
    /\ PipelineIdle
    /\ PostIdle
    /\ SaltIdle
    /\ rest_request \in
          [call : {"QueryItemRegReport.get"}, config : {SourceConfig, DeployedConfig},
           target_report : {"Item Registration"}, unit : {"Week", "Month"},
           start_date : {0, 8, 15}, end_date : {0, 8, 21, 36}, buckets : WeekBuckets]
    /\ rest_local = <<>>
    /\ rest_response = <<>>

SpecItemReg == InitItemReg /\ [][NextItemReg]_vars

\* a weekly report is asked for, with a start or an end date missing
WeekWithoutDates ==
    /\ rest_request.unit = "Week"
    /\ rest_request.start_date = 0 \/ rest_request.end_date = 0

WeekWithDates ==
    /\ rest_request.unit = "Week"
    /\ rest_request.start_date # 0
    /\ rest_request.end_date # 0
    /\ rest_request.start_date <= rest_request.end_date

\* the rows of all the responses, in order
RECURSIVE AllRows(_)
AllRows(responses) ==
    IF responses = <<>> THEN <<>>
    ELSE responses[1].data \o AllRows(Tail(responses))

\* rows follow one another day by day from start_date on, each at most seven
\* days long and none beyond end_date; a page has at most ReportsPerPage rows
WeeksInOrder ==
    LET rows == AllRows(rest_response)
    IN  /\ \A k \in DOMAIN rest_response :
              Len(rest_response[k].data) <= ReportsPerPage
        /\ \A i \in DOMAIN rows :
              /\ rows[i].start_date =
                    IF i = 1 THEN rest_request.start_date ELSE rows[i - 1].end_date + 1
              /\ rows[i].start_date <= rows[i].end_date
              /\ rows[i].end_date - rows[i].start_date < 7
              /\ rows[i].end_date <= rest_request.end_date

\* the last page is in: the rows end at end_date, and num_page is the number
\* of pages the rows fill
WeeksComplete ==
    LET rows == AllRows(rest_response)
    IN  Len(rest_response) = rest_response[1].num_page
            => /\ rows # <<>>
               /\ rows[Len(rows)].end_date = rest_request.end_date
               /\ rest_response[1].num_page =
                     (Len(rows) + ReportsPerPage - 1) \div ReportsPerPage

\* C30 as stated: with unit 'Week' and both dates given, start_date <= end_date,
\* each call returns a page, and the rows of all the pages are consecutive,
\* do not overlap, are at most 7 days long, do not pass end_date and cover
\* each day of the range once; a page has at most REPORTS_PER_PAGE rows and
\* num_page is ceil(total rows / REPORTS_PER_PAGE).
C30_Claim ==
    (WeekWithDates /\ rest_response # <<>>)
        => /\ \A k \in DOMAIN rest_response : rest_response[k].raised = None
           /\ WeeksInOrder
           /\ WeeksComplete

\* the same where config has been given REPORTS_PER_PAGE and TARGET_REPORTS
ItemRegWeeks_Partition ==
    (WeekWithDates /\ rest_response # <<>> /\ rest_request.config = DeployedConfig)
        => WeeksInOrder /\ WeeksComplete

=============================================================================
